---------------------------- MODULE Spec2Model ----------------------------
(***************************************************************************)
(* A model of bsky2llm's thread composition (markdown_creator.py):         *)
(* thread_to_markdown, _process_thread_node and _extract_post_data.        *)
(*                                                                         *)
(* JSON values are tagged records [t |-> type, v |-> payload]; a Python    *)
(* str is a sequence of one-character strings, a dict a function from key  *)
(* names to values, a list a sequence of values.  An operation that can    *)
(* raise returns a record whose exc field names the exception type         *)
(* ("none" when it returns normally).                                      *)
(***************************************************************************)
EXTENDS Integers, Sequences, FiniteSets, TLC

(***************************************************************************)
(* Bounds of the input space.                                              *)
(***************************************************************************)
MaxReplies == 2      \* longest replies array of a node
MaxTreeDepth == 2    \* deepest node of a thread (the root is at depth 0)
MaxOdd == 1          \* nodes of a thread that are not a plain, well-formed post

(***************************************************************************)
(* JSON / Python values.                                                   *)
(***************************************************************************)
Str(s) == [t |-> "str", v |-> s]
IntV(n) == [t |-> "int", v |-> n]
Bool(b) == [t |-> "bool", v |-> b]
List(l) == [t |-> "list", v |-> l]
Dict(f) == [t |-> "dict", v |-> f]
Null == [t |-> "null"]
EmptyDict == Dict([k \in {} |-> Null])
EmptyStr == Str(<<>>)

IsDict(x) == x.t = "dict"
IsList(x) == x.t = "list"

\* dict.get(key, default) on the payload of a dict
Get(d, key, default) == IF key \in DOMAIN d.v THEN d.v[key] ELSE default

\* d[key] = value on a dict payload (a later assignment replaces an earlier one)
Put(f, key, value) == (key :> value) @@ f

(***************************************************************************)
(* Python str operations, on sequences of characters.                      *)
(***************************************************************************)
IsPrefix(p, s) == Len(p) <= Len(s) /\ SubSeq(s, 1, Len(p)) = p

\* sub in s
Contains(sub, s) ==
    \E i \in 0..(Len(s) - Len(sub)) : SubSeq(s, i + 1, i + Len(sub)) = sub

\* the position of the first ch in s at or after position from, Len(s)+1 if none
RECURSIVE FindChar(_, _, _)
FindChar(s, ch, from) ==
    IF from > Len(s) THEN Len(s) + 1
    ELSE IF s[from] = ch THEN from
    ELSE FindChar(s, ch, from + 1)

\* s.split("#")[1], for an s that contains "#"
SplitHash1(s) ==
    LET first == FindChar(s, "#", 1)
        second == FindChar(s, "#", first + 1)
    IN SubSeq(s, first + 1, second - 1)

Digit(n) == <<"0", "1", "2", "3", "4", "5", "6", "7", "8", "9">>[n + 1]

\* str(n) of a non-negative int
RECURSIVE IntToStr(_)
IntToStr(n) == IF n < 10 THEN <<Digit(n)>> ELSE IntToStr(n \div 10) \o <<Digit(n % 10)>>

\* sep.join(parts)
RECURSIVE Join(_, _)
Join(sep, parts) ==
    IF parts = <<>> THEN <<>>
    ELSE IF Len(parts) = 1 THEN parts[1]
    ELSE parts[1] \o sep \o Join(sep, Tail(parts))

\* s * n
RECURSIVE Repeat(_, _)
Repeat(s, n) == IF n <= 0 THEN <<>> ELSE s \o Repeat(s, n - 1)

\* str(x), as format() applies it to a field with an empty format spec
ToStr(x) ==
    CASE x.t = "str" -> x.v
      [] x.t = "int" -> IntToStr(x.v)
      [] x.t = "bool" -> IF x.v THEN <<"T", "r", "u", "e">> ELSE <<"F", "a", "l", "s", "e">>
      [] x.t = "null" -> <<"N", "o", "n", "e">>
      [] OTHER -> <<"<", x.t, ">">>

(***************************************************************************)
(* _extract_post_data                                                      *)
(***************************************************************************)
S_images == <<"i", "m", "a", "g", "e", "s">>
S_record == <<"r", "e", "c", "o", "r", "d">>
S_external == <<"e", "x", "t", "e", "r", "n", "a", "l">>

\* markdown_creator.py:54-59
AuthorData(post_obj) ==
    LET author == Get(post_obj, "author", EmptyDict)
    IN IF IsDict(author)
       THEN [did |-> Get(author, "did", EmptyStr),
             handle |-> Get(author, "handle", EmptyStr),
             displayName |-> Get(author, "displayName", Get(author, "handle", EmptyStr)),
             avatar |-> Get(author, "avatar", EmptyStr)]
       ELSE [k \in {} |-> Null]

\* markdown_creator.py:62-73
RecordData(post_obj) ==
    LET record == Get(post_obj, "record", EmptyDict)
        facets == Get(record, "facets", List(<<>>))
    IN IF IsDict(record)
       THEN [text |-> Get(record, "text", EmptyStr),
             createdAt |-> Get(record, "createdAt", EmptyStr),
             hasFacets |-> Bool(IsList(facets) /\ facets.v # <<>>)]
            @@ (IF IsList(facets) /\ facets.v # <<>>
                THEN [facets |-> facets] ELSE [k \in {} |-> Null])
       ELSE [k \in {} |-> Null]

\* markdown_creator.py:76-79
MetricData(post_obj) ==
    [replyCount |-> Get(post_obj, "replyCount", IntV(0)),
     repostCount |-> Get(post_obj, "repostCount", IntV(0)),
     likeCount |-> Get(post_obj, "likeCount", IntV(0)),
     indexedAt |-> Get(post_obj, "indexedAt", EmptyStr)]

\* markdown_creator.py:85: embed_type.split("#")[1] if "#" in embed_type else ""
EmbedType(embed_type) ==
    CASE embed_type.t = "str" ->
            [exc |-> "none",
             v |-> IF Contains(<<"#">>, embed_type.v) THEN SplitHash1(embed_type.v) ELSE <<>>]
      [] embed_type.t = "list" ->
            IF \E i \in DOMAIN embed_type.v : embed_type.v[i] = Str(<<"#">>)
            THEN [exc |-> "AttributeError", v |-> <<>>]
            ELSE [exc |-> "none", v |-> <<>>]
      [] embed_type.t = "dict" ->
            IF "#" \in DOMAIN embed_type.v
            THEN [exc |-> "AttributeError", v |-> <<>>]
            ELSE [exc |-> "none", v |-> <<>>]
      [] OTHER -> [exc |-> "TypeError", v |-> <<>>]

\* markdown_creator.py:88-93
ImageData(embed) ==
    LET images == Get(embed, "images", List(<<>>))
    IN [hasImage |-> Bool(TRUE)]
       @@ (IF IsList(images) /\ images.v # <<>>
           THEN [imageCount |-> IntV(Len(images.v)), images |-> images]
           ELSE [k \in {} |-> Null])

\* markdown_creator.py:96-101
QuoteData(embed) ==
    LET record == Get(embed, "record", EmptyDict)
        value == Get(record, "value", EmptyDict)
    IN IF ~IsDict(record) THEN [exc |-> "none", data |-> [hasQuote |-> Bool(TRUE)]]
       ELSE IF ~IsDict(value) THEN [exc |-> "AttributeError", data |-> [k \in {} |-> Null]]
       ELSE [exc |-> "none",
             data |-> [hasQuote |-> Bool(TRUE),
                       quoteUri |-> Get(record, "uri", EmptyStr),
                       quoteText |-> Get(value, "text", EmptyStr)]]

\* markdown_creator.py:104-111
ExternalData(embed) ==
    LET external == Get(embed, "external", EmptyDict)
    IN [hasExternal |-> Bool(TRUE)]
       @@ (IF IsDict(external)
           THEN [externalUrl |-> Get(external, "uri", EmptyStr),
                 externalTitle |-> Get(external, "title", EmptyStr),
                 externalDescription |-> Get(external, "description", EmptyStr),
                 externalThumb |-> Get(external, "thumb", EmptyStr)]
           ELSE [k \in {} |-> Null])

\* markdown_creator.py:82-111
EmbedData(post_obj) ==
    LET embed == Get(post_obj, "embed", EmptyDict)
        et == EmbedType(Get(embed, "$type", EmptyStr))
        base == [embedType |-> Str(et.v)]
    IN IF ~IsDict(embed) THEN [exc |-> "none", data |-> [k \in {} |-> Null]]
       ELSE IF et.exc # "none" THEN [exc |-> et.exc, data |-> [k \in {} |-> Null]]
       ELSE IF Contains(S_images, et.v) THEN [exc |-> "none", data |-> ImageData(embed) @@ base]
       ELSE IF Contains(S_record, et.v)
            THEN [exc |-> QuoteData(embed).exc, data |-> QuoteData(embed).data @@ base]
       ELSE IF Contains(S_external, et.v)
            THEN [exc |-> "none", data |-> ExternalData(embed) @@ base]
       ELSE [exc |-> "none", data |-> base]

\* markdown_creator.py:33-113; data is the returned dict when nothing is raised
_extract_post_data(post_obj) ==
    IF ~IsDict(post_obj) THEN [exc |-> "none", data |-> [k \in {} |-> Null]]
    ELSE [exc |-> EmbedData(post_obj).exc,
          data |-> EmbedData(post_obj).data
                   @@ MetricData(post_obj)
                   @@ RecordData(post_obj)
                   @@ AuthorData(post_obj)
                   @@ [uri |-> Get(post_obj, "uri", EmptyStr),
                       cid |-> Get(post_obj, "cid", EmptyStr)]]

(***************************************************************************)
(* str.format: a format string is the sequence of its parts, a literal     *)
(* [k |-> "lit", s |-> text] or a replacement field                        *)
(* [k |-> "field", name |-> key, spec |-> format spec].                    *)
(***************************************************************************)
Lit(s) == [k |-> "lit", s |-> s]
Field(name) == [k |-> "field", name |-> name, spec |-> ""]
FieldSpec(name, spec) == [k |-> "field", name |-> name, spec |-> spec]

\* format(value, spec) for the specs "" and "d"
FormatField(value, spec) ==
    IF spec = "" THEN [exc |-> "none", md |-> ToStr(value)]
    ELSE CASE value.t = "int" -> [exc |-> "none", md |-> IntToStr(value.v)]
           [] value.t = "bool" -> [exc |-> "none", md |-> IF value.v THEN <<"1">> ELSE <<"0">>]
           [] value.t = "str" -> [exc |-> "ValueError", md |-> <<>>]
           [] OTHER -> [exc |-> "TypeError", md |-> <<>>]

\* format_str.format(**post_data): fields are substituted left to right and
\* the first one that fails decides the exception
RECURSIVE Format(_, _)
Format(format_str, post_data) ==
    IF format_str = <<>> THEN [exc |-> "none", md |-> <<>>]
    ELSE LET part == Head(format_str)
             piece == IF part.k = "lit" THEN [exc |-> "none", md |-> part.s]
                      ELSE IF part.name \notin DOMAIN post_data
                           THEN [exc |-> "KeyError", md |-> <<>>]
                      ELSE FormatField(post_data[part.name], part.spec)
             rest == Format(Tail(format_str), post_data)
         IN IF piece.exc # "none" THEN piece
            ELSE IF rest.exc # "none" THEN rest
            ELSE [exc |-> "none", md |-> piece.md \o rest.md]

(***************************************************************************)
(* _process_thread_node                                                    *)
(***************************************************************************)
None == <<>>     \* the current_index argument that thread_to_markdown passes

\* a filter_fn: None, or the predicate "likeCount is a number >= 10"
FilterFns == {"None", "min_likes"}

\* filter_fn(post_data)
CallFilter(filter_fn, post_data) ==
    post_data["likeCount"].t = "int" /\ post_data["likeCount"].v >= 10

\* FilterRejects with a fault: the filter is consulted but never skips a node
FilterRejects_Ignored(filter_fn, post_data) == FALSE

\* markdown_creator.py:165: the node is skipped
FilterRejects(filter_fn, post_data) ==
    filter_fn # "None" /\ ~CallFilter(filter_fn, post_data)

\* IndexStr with a fault: only the last position is written
IndexStr_LeafOnly(current_index) == IntToStr(current_index[Len(current_index)])

\* markdown_creator.py:170
IndexStr(current_index) ==
    Join(<<".">>, [i \in 1..Len(current_index) |-> IntToStr(current_index[i])])

\* markdown_creator.py:169-173
WithIndex(post_data, include_indices, current_index, depth) ==
    IF include_indices
    THEN [index |-> Str(IndexStr(current_index)),
          depth |-> IntV(depth),
          indent |-> Str(Repeat(<<" ", " ">>, depth))] @@ post_data
    ELSE post_data

\* post_data.get(key, '') inside an f-string
GetStr(post_data, key) == IF key \in DOMAIN post_data THEN ToStr(post_data[key]) ELSE <<>>

\* Fallback with a fault: the index prefix is emitted whether or not indices are on
Fallback_AlwaysPrefixed(post_data, include_indices) ==
    <<"[">> \o GetStr(post_data, "index") \o <<"]", " ">>
    \o <<"*", "*">> \o GetStr(post_data, "displayName")
    \o <<"*", "*", " ", "(", "@">> \o GetStr(post_data, "handle")
    \o <<")", ":", "\n">> \o GetStr(post_data, "text") \o <<"\n", "\n">>

\* markdown_creator.py:197-198
Fallback(post_data, include_indices) ==
    (IF include_indices THEN <<"[">> \o GetStr(post_data, "index") \o <<"]", " ">> ELSE <<>>)
    \o <<"*", "*">> \o GetStr(post_data, "displayName")
    \o <<"*", "*", " ", "(", "@">> \o GetStr(post_data, "handle")
    \o <<")", ":", "\n">> \o GetStr(post_data, "text") \o <<"\n", "\n">>

\* One element of results: the string md, with the uri of the post it was
\* rendered from and whether the fallback rendered it.
Fragment(md, post_data, fallback) == [md |-> md, uri |-> post_data["uri"], fallback |-> fallback]

\* Render with a fault: the function returns after the fallback fragment
Render_FallbackReturns(format_str, post_data, include_indices) ==
    LET f == Format(format_str, post_data)
    IN CASE f.exc = "none" ->
               [returns |-> FALSE, results |-> <<Fragment(f.md, post_data, FALSE)>>]
         [] f.exc = "KeyError" ->
               [returns |-> TRUE,
                results |-> <<Fragment(Fallback(post_data, include_indices), post_data, TRUE)>>]
         [] OTHER -> [returns |-> TRUE, results |-> <<>>]

\* Render with a fault: after any other exception only the node's own fragment is
\* left out and the function goes on to the replies
Render_SkipsNodeOnly(format_str, post_data, include_indices) ==
    LET f == Format(format_str, post_data)
    IN CASE f.exc = "none" ->
               [returns |-> FALSE, results |-> <<Fragment(f.md, post_data, FALSE)>>]
         [] f.exc = "KeyError" ->
               [returns |-> FALSE,
                results |-> <<Fragment(Fallback(post_data, include_indices), post_data, TRUE)>>]
         [] OTHER -> [returns |-> FALSE, results |-> <<>>]

\* markdown_creator.py:176-215, without media: the elements appended to
\* results, and whether the function returns from the last except clause
Render(format_str, post_data, include_indices) ==
    LET f == Format(format_str, post_data)
    IN CASE f.exc = "none" ->
               [returns |-> FALSE, results |-> <<Fragment(f.md, post_data, FALSE)>>]
         [] f.exc = "KeyError" ->
               [returns |-> FALSE,
                results |-> <<Fragment(Fallback(post_data, include_indices), post_data, TRUE)>>]
         [] OTHER -> [returns |-> TRUE, results |-> <<>>]

\* Descends with a fault: include_replies is not consulted
Descends_AlwaysReplies(include_replies, max_depth, depth) == max_depth < 0 \/ depth < max_depth

\* Descends with a fault: the depth test is off by one
Descends_OffByOne(include_replies, max_depth, depth) ==
    include_replies /\ (max_depth < 0 \/ depth <= max_depth)

\* markdown_creator.py:218
Descends(include_replies, max_depth, depth) ==
    include_replies /\ (max_depth < 0 \/ depth < max_depth)

\* ReplyIndex with a fault: the position is taken 0-based
ReplyIndex_ZeroBased(current_index, depth, i) == Append(current_index, i)

\* markdown_creator.py:223-229; i counts from 0
ReplyIndex(current_index, depth, i) ==
    LET reply_index == IF Len(current_index) <= depth + 1
                       THEN current_index \o [k \in 1..(depth + 1 - Len(current_index) + 1) |-> 1]
                       ELSE current_index
    IN [reply_index EXCEPT ![depth + 2] = i + 1]

\* Extend with a fault: the replies' fragments are put before the node's own
Extend_Prepend(results, reply_results) == reply_results \o results

\* markdown_creator.py:245
Extend(results, reply_results) == results \o reply_results

RECURSIVE _process_thread_node(_, _, _, _, _, _, _, _)
RECURSIVE ProcessReplies(_, _, _, _, _, _, _, _, _, _)
RECURSIVE ProcessReplies_Prefiltered(_, _, _, _, _, _, _, _, _, _)

\* ProcessReplies with a fault: the replies the filter rejects are removed before
\* the loop numbers them
ProcessReplies_Prefiltered(replies, i, results, format_str, depth, include_replies, max_depth, filter_fn, include_indices, current_index) ==
    LET Kept(r) == ~(/\ IsDict(r) /\ IsDict(Get(r, "post", EmptyDict))
                     /\ _extract_post_data(Get(r, "post", EmptyDict)).exc = "none"
                     /\ FilterRejects(filter_fn, _extract_post_data(Get(r, "post", EmptyDict)).data))
        kept == SelectSeq(replies, Kept)
    IN IF i >= Len(kept) THEN [exc |-> "none", results |-> results]
       ELSE LET reply == _process_thread_node(kept[i + 1], format_str, depth + 1,
                             include_replies, max_depth, filter_fn, include_indices,
                             ReplyIndex(current_index, depth, i))
            IN IF reply.exc # "none" THEN [exc |-> reply.exc, results |-> <<>>]
               ELSE ProcessReplies_Prefiltered(kept, i + 1, Extend(results, reply.results),
                        format_str, depth, include_replies, max_depth, filter_fn,
                        include_indices, current_index)

\* markdown_creator.py:221-245: the loop over replies from position i on
ProcessReplies(replies, i, results, format_str, depth, include_replies, max_depth, filter_fn, include_indices, current_index) ==
    IF i >= Len(replies) THEN [exc |-> "none", results |-> results]
    ELSE LET reply == _process_thread_node(replies[i + 1], format_str, depth + 1,
                          include_replies, max_depth, filter_fn, include_indices,
                          ReplyIndex(current_index, depth, i))
         IN IF reply.exc # "none" THEN [exc |-> reply.exc, results |-> <<>>]
            ELSE ProcessReplies(replies, i + 1, Extend(results, reply.results), format_str,
                     depth, include_replies, max_depth, filter_fn, include_indices,
                     current_index)

\* markdown_creator.py:115-247 with process_media False
_process_thread_node(node, format_str, depth, include_replies, max_depth, filter_fn, include_indices, current_index) ==
    LET index == IF current_index = None THEN <<1>> ELSE current_index
        post_obj == Get(node, "post", EmptyDict)
        extracted == _extract_post_data(post_obj)
        post_data == WithIndex(extracted.data, include_indices, index, depth)
        rendered == Render(format_str, post_data, include_indices)
        replies == Get(node, "replies", List(<<>>))
    IN IF ~IsDict(node) THEN [exc |-> "none", results |-> <<>>]
       ELSE IF ~IsDict(post_obj) THEN [exc |-> "none", results |-> <<>>]
       ELSE IF extracted.exc # "none" THEN [exc |-> extracted.exc, results |-> <<>>]
       ELSE IF FilterRejects(filter_fn, extracted.data) THEN [exc |-> "none", results |-> <<>>]
       ELSE IF rendered.returns THEN [exc |-> "none", results |-> rendered.results]
       ELSE IF Descends(include_replies, max_depth, depth) /\ IsList(replies)
            THEN ProcessReplies(replies.v, 0, rendered.results, format_str, depth,
                     include_replies, max_depth, filter_fn, include_indices, index)
       ELSE [exc |-> "none", results |-> rendered.results]

\* markdown_creator.py:307
JoinFragments(post_mds) == Join(<<>>, [i \in 1..Len(post_mds) |-> post_mds[i].md])

\* PostAfter with a fault: post_data is the post object itself, so index, depth
\* and indent (and the extracted fields) are written into the caller's post
PostAfter_Aliased(post_obj, post_data) == Dict(post_data @@ post_obj.v)

\* the post object of a node once the node is processed: _extract_post_data
\* fills a dict of its own (markdown_creator.py:45), and the only assignments
\* of the traversal (171-173) go to that dict
PostAfter(post_obj, post_data) == post_obj

RECURSIVE NodeAfter(_, _, _, _, _, _, _, _)
\* the node object once _process_thread_node has run on it: the posts of the
\* nodes the traversal reaches as PostAfter leaves them, the rest untouched
NodeAfter(node, format_str, depth, include_replies, max_depth, filter_fn, include_indices, current_index) ==
    LET index == IF current_index = None THEN <<1>> ELSE current_index
        post_obj == Get(node, "post", EmptyDict)
        extracted == _extract_post_data(post_obj)
        post_data == WithIndex(extracted.data, include_indices, index, depth)
        rendered == Render(format_str, post_data, include_indices)
        replies == Get(node, "replies", List(<<>>))
        written == IF "post" \in DOMAIN node.v
                   THEN Put(node.v, "post", PostAfter(post_obj, post_data))
                   ELSE node.v
    IN IF ~IsDict(node) THEN node
       ELSE IF ~IsDict(post_obj) THEN node
       ELSE IF extracted.exc # "none" THEN node
       ELSE IF FilterRejects(filter_fn, extracted.data) THEN node
       ELSE IF rendered.returns THEN Dict(written)
       ELSE IF Descends(include_replies, max_depth, depth) /\ IsList(replies)
            THEN Dict(Put(written, "replies",
                          List([i \in 1..Len(replies.v) |->
                                   NodeAfter(replies.v[i], format_str, depth + 1,
                                       include_replies, max_depth, filter_fn, include_indices,
                                       ReplyIndex(index, depth, i - 1))])))
       ELSE Dict(written)

\* markdown_creator.py:249-310 with process_media False; thread_after is the
\* object thread_data as the call leaves it
thread_to_markdown(thread_data_, format_str_, include_replies_, max_depth_, filter_fn_, include_indices_) ==
    LET thread_node == Get(thread_data_, "thread", EmptyDict)
        post_mds == _process_thread_node(thread_node, format_str_, 0, include_replies_,
                        max_depth_, filter_fn_, include_indices_, None)
    IN [exc |-> post_mds.exc,
        post_mds |-> post_mds.results,
        markdown |-> JoinFragments(post_mds.results),
        thread_after |-> Dict(Put(thread_data_.v, "thread",
                                  NodeAfter(thread_node, format_str_, 0, include_replies_,
                                      max_depth_, filter_fn_, include_indices_, None)))]

(***************************************************************************)
(* Inputs: threads, format strings and options.                            *)
(***************************************************************************)
S_Hello == <<"H", "e", "l", "l", "o">>
S_World == <<"W", "o", "r", "l", "d">>
S_ImagesView == <<"a", "p", "p", ".", "b", "s", "k", "y", ".", "e", "m", "b", "e", "d", ".",
                  "i", "m", "a", "g", "e", "s", "#", "v", "i", "e", "w">>

\* a well-formed post without media, liked 20 times
PlainPost(uri, text) ==
    [uri |-> Str(uri),
     author |-> Dict([handle |-> Str(<<"a", "l">>), displayName |-> Str(<<"A", "l">>)]),
     record |-> Dict([text |-> Str(text)]),
     likeCount |-> IntV(20)]

\* the other posts: a plain post with one field changed
OddKinds == {"low", "str_likes", "no_author", "bad_type", "bad_quote", "image_view",
             "image_tag", "bad_post", "bad_node"}

Post(kind, uri, text) ==
    LET plain == PlainPost(uri, text)
    IN CASE kind = "plain" -> Dict(plain)
         [] kind = "low" -> Dict(Put(plain, "likeCount", IntV(5)))
         [] kind = "str_likes" -> Dict(Put(plain, "likeCount", Str(<<"m", "a", "n", "y">>)))
         [] kind = "no_author" -> Dict(Put(plain, "author", Null))
         [] kind = "bad_type" -> Dict(Put(plain, "embed", Dict("$type" :> IntV(5))))
         [] kind = "bad_quote" ->
                Dict(Put(plain, "embed",
                         Dict(("$type" :> Str(<<"x", "#", "r", "e", "c", "o", "r", "d">>))
                              @@ [record |-> Dict([value |-> Str(<<"q">>)])])))
         [] kind = "image_view" ->
                Dict(Put(plain, "embed",
                         Dict(("$type" :> Str(S_ImagesView))
                              @@ [images |-> List(<<Dict([alt |-> Str(<<"a">>)])>>)])))
         [] kind = "image_tag" ->
                Dict(Put(plain, "embed",
                         Dict("$type" :> Str(<<"x", "#", "i", "m", "a", "g", "e", "s">>))))
         [] OTHER -> Str(<<"x">>)

\* the shape of a thread: a node is the sequence of the shapes of its replies
RECURSIVE Shapes(_)
Shapes(d) ==
    IF d = 0 THEN {<<>>}
    ELSE UNION {[1..n -> Shapes(d - 1)] : n \in 0..MaxReplies}

\* a node is named by its path: the 1-based positions, in the replies arrays,
\* that lead from the root to it
RECURSIVE ShapePaths(_, _)
ShapePaths(shape, path) ==
    {path} \cup UNION {ShapePaths(shape[i], Append(path, i)) : i \in 1..Len(shape)}

\* the uri given to the post at a path
UriOf(path) == <<"r">> \o [i \in 1..Len(path) |-> Digit(path[i])]

RECURSIVE Build(_, _, _)
Build(shape, path, odd) ==
    LET kind == IF path \in DOMAIN odd THEN odd[path] ELSE "plain"
    IN IF kind = "bad_node" THEN Null
       ELSE Dict([post |-> Post(kind, UriOf(path), IF path = <<>> THEN S_Hello ELSE S_World),
                  replies |-> List([i \in 1..Len(shape) |->
                                        Build(shape[i], Append(path, i), odd)])])

Threads ==
    UNION {UNION {{Dict([thread |-> Build(shape, <<>>, odd)]) : odd \in [S -> OddKinds]} :
                  S \in {T \in SUBSET ShapePaths(shape, <<>>) : Cardinality(T) <= MaxOdd}} :
           shape \in Shapes(MaxTreeDepth)}

\* DefaultFormat with a fault: the default template starts with the index
DefaultFormat_Indexed ==
    <<Lit(<<"[">>), Field("index"), Lit(<<"]", " ">>),
      Lit(<<"*", "*">>), Field("displayName"), Lit(<<"*", "*", " ", "(", "@">>),
      Field("handle"), Lit(<<")", ":", "\n">>), Field("text"), Lit(<<"\n", "\n">>)>>

\* the default of thread_to_markdown, markdown_creator.py:251
DefaultFormat ==
    <<Lit(<<"*", "*">>), Field("displayName"), Lit(<<"*", "*", " ", "(", "@">>),
      Field("handle"), Lit(<<")", ":", "\n">>), Field("text"), Lit(<<"\n", "\n">>)>>

\* the format of main(), markdown_creator.py:328
IndexedFormat == <<Lit(<<"[">>), Field("index"), Lit(<<"]", " ">>)>> \o DefaultFormat

FormatStrs ==
    {DefaultFormat, IndexedFormat, <<Field("nonexistent")>>, <<Field("hasImage")>>,
     <<FieldSpec("likeCount", "d"), Lit(<<"|">>)>>}

MaxDepths == -1..MaxTreeDepth

(***************************************************************************)
(* The state machine: a call of thread_to_markdown on some input.          *)
(***************************************************************************)
VARIABLES thread_data, format_str, include_replies, max_depth, filter_fn,
          include_indices, pc, result

\* the state of a call of _extract_media_from_post (its argument, its position,
\* the list it returned) and of a call of get_post_thread (the JSON document of
\* the response, its position, the value it returned)
VARIABLES raw_post, media_pc, media_out, api_data, fetch_pc, thread_out

\* the state of a call of compose_thread_markdown (its argument, its position,
\* the string it returned) and of a call of ai_api_call: the environment, the
\* caller's list of messages, the structured_output argument, the attempts of
\* _make_api_call made so far, the messages each attempt sent, its position
\* and the value it returned
VARIABLES md_data, md_pc, md_out, ai_env, messages, structured_output, attempts, sent, ai_pc,
          ai_out

mdVars == <<md_data, md_pc, md_out>>

aiVars == <<ai_env, messages, structured_output, attempts, sent, ai_pc, ai_out>>

\* no call of compose_thread_markdown is in progress
MdIdle == md_data = Null /\ md_pc = "idle" /\ md_out = <<>>

\* no call of ai_api_call is in progress
AiIdle ==
    /\ ai_env = {}
    /\ messages = <<>>
    /\ structured_output = Null
    /\ attempts = 0
    /\ sent = <<>>
    /\ ai_pc = "idle"
    /\ ai_out = <<>>

mediaVars == <<raw_post, media_pc, media_out>>

fetchVars == <<api_data, fetch_pc, thread_out>>

composeVars == <<thread_data, format_str, include_replies, max_depth, filter_fn, include_indices, pc, result>>

\* no call of _extract_media_from_post is in progress
MediaIdle == raw_post = Null /\ media_pc = "idle" /\ media_out = <<>>

\* no call of get_post_thread is in progress
FetchIdle == api_data = Null /\ fetch_pc = "idle" /\ thread_out = Null

\* no call of thread_to_markdown is in progress
ComposeIdle ==
    /\ thread_data = Null
    /\ format_str = <<>>
    /\ include_replies = FALSE
    /\ max_depth = 0
    /\ filter_fn = "None"
    /\ include_indices = FALSE
    /\ pc = "idle"
    /\ result = [exc |-> "none", post_mds |-> <<>>, markdown |-> <<>>]

vars == <<thread_data, format_str, include_replies, max_depth, filter_fn,
          include_indices, pc, result, raw_post, media_pc, media_out, api_data, fetch_pc,
          thread_out, md_data, md_pc, md_out, ai_env, messages, structured_output, attempts,
          sent, ai_pc, ai_out>>

args == <<thread_data, format_str, include_replies, max_depth, filter_fn, include_indices>>

Init ==
    /\ thread_data \in Threads
    /\ format_str \in FormatStrs
    /\ include_replies \in BOOLEAN
    /\ max_depth \in MaxDepths
    /\ filter_fn \in FilterFns
    /\ include_indices \in BOOLEAN
    /\ pc = "called"
    /\ result = [exc |-> "none", post_mds |-> <<>>, markdown |-> <<>>]
    /\ MediaIdle
    /\ FetchIdle
    /\ MdIdle
    /\ AiIdle

Call == thread_to_markdown(thread_data, format_str, include_replies, max_depth, filter_fn,
                           include_indices)

\* thread_to_markdown returns its markdown
Return ==
    /\ pc = "called"
    /\ Call.exc = "none"
    /\ result' = Call
    /\ pc' = "returned"
    /\ UNCHANGED <<args, mediaVars, fetchVars, mdVars, aiVars>>

\* an exception leaves thread_to_markdown
Raise ==
    /\ pc = "called"
    /\ Call.exc # "none"
    /\ result' = Call
    /\ pc' = "raised"
    /\ UNCHANGED <<args, mediaVars, fetchVars, mdVars, aiVars>>

Next == Return \/ Raise

Spec == Init /\ [][Next]_vars

(***************************************************************************)
(* The thread of a state, node by node.                                    *)
(***************************************************************************)
Root == Get(thread_data, "thread", EmptyDict)

HasReplies(node) == IsDict(node) /\ IsList(Get(node, "replies", List(<<>>)))

RECURSIVE PathsOf(_, _)
PathsOf(node, path) ==
    {path} \cup
    (IF HasReplies(node)
     THEN UNION {PathsOf(Get(node, "replies", List(<<>>)).v[i], Append(path, i)) :
                 i \in 1..Len(Get(node, "replies", List(<<>>)).v)}
     ELSE {})

\* the paths of all nodes of the thread, malformed ones included
NodePaths == PathsOf(Root, <<>>)

RECURSIVE NodeBelow(_, _)
NodeBelow(node, path) ==
    IF path = <<>> THEN node
    ELSE NodeBelow(Get(node, "replies", List(<<>>)).v[Head(path)], Tail(path))

NodeAt(path) == NodeBelow(Root, path)
PostAt(path) == Get(NodeAt(path), "post", EmptyDict)

\* the node is an object whose post is an object
WellFormed(path) == IsDict(NodeAt(path)) /\ IsDict(PostAt(path))

\* the raw field of a well-formed node's post, "" when absent or not a string
RawStr(obj, key) ==
    IF IsDict(obj) /\ key \in DOMAIN obj.v /\ obj.v[key].t = "str" THEN obj.v[key].v ELSE <<>>

Fragments == result.post_mds

\* the fragments rendered from the post of the node at path
FragmentsOf(path) ==
    IF WellFormed(path)
    THEN {i \in DOMAIN Fragments : Fragments[i].uri = Get(PostAt(path), "uri", EmptyStr)}
    ELSE {}

Rendered(path) == FragmentsOf(path) # {}

\* the node whose post a fragment was rendered from
PathOfFragment(i) == CHOOSE path \in NodePaths : i \in FragmentsOf(path)

Ancestors(path) == {SubSeq(path, 1, n) : n \in 0..(Len(path) - 1)}
Descendants(path) == {q \in NodePaths : Len(q) > Len(path) /\ SubSeq(q, 1, Len(path)) = path}
Siblings(path) ==
    {q \in NodePaths : /\ Len(q) = Len(path) /\ q # path
                       /\ path # <<>> /\ SubSeq(q, 1, Len(q) - 1) = SubSeq(path, 1, Len(path) - 1)}

\* filter_fn, if any, accepts the post of a well-formed node
PassesFilter(path) ==
    filter_fn = "None" \/ CallFilter(filter_fn, _extract_post_data(PostAt(path)).data)

\* extracting the post's data raises
ExtractRaises(path) == _extract_post_data(PostAt(path)).exc # "none"

\* substituting the post of a well-formed node into format_str raises
\* something else than KeyError (no field of FormatStrs formats index, depth
\* or indent with a spec, so their values do not matter here)
RenderFails(path) ==
    Format(format_str,
           WithIndex(_extract_post_data(PostAt(path)).data, include_indices, <<1>>, Len(path))).exc
        \notin {"none", "KeyError"}

DepthAllowed(path) == max_depth < 0 \/ Len(path) <= max_depth

\* before is visited before after in a depth-first preorder walk
Precedes(before, after) ==
    \/ Len(before) < Len(after) /\ SubSeq(after, 1, Len(before)) = before
    \/ \E k \in 1..Len(before) :
          /\ k <= Len(after)
          /\ SubSeq(before, 1, k - 1) = SubSeq(after, 1, k - 1)
          /\ before[k] < after[k]

\* the index of a node as the code numbers it: 1 for the root, then the
\* 1-based positions along the path
OutlineIndex(path) ==
    Join(<<".">>, <<<<"1">>>> \o [i \in 1..Len(path) |-> IntToStr(path[i])])

\* the index of a node with an unnumbered root: the positions along the path
RootlessIndex(path) == Join(<<".">>, [i \in 1..Len(path) |-> IntToStr(path[i])])

(***************************************************************************)
(* Claims.                                                                 *)
(***************************************************************************)

\* C1: when filter_fn rejects a node's post, the output has no fragment for
\* that node nor for any of its descendants, whatever filter_fn says of them.
C1_FilterPrunesSubtree ==
    pc = "returned" =>
        \A path \in NodePaths :
            (WellFormed(path) /\ ~PassesFilter(path)) =>
                ~Rendered(path) /\ \A q \in Descendants(path) : ~Rendered(q)

\* a rejected reply of a rendered parent has a reply that the filter accepts
\* and the depth limit allows
C1_Witness ==
    /\ pc = "returned" /\ include_replies
    /\ \E path \in NodePaths :
          /\ WellFormed(path) /\ ~PassesFilter(path)
          /\ \A a \in Ancestors(path) : Rendered(a)
          /\ \E q \in Descendants(path) :
                WellFormed(q) /\ PassesFilter(q) /\ DepthAllowed(q) /\ ~Rendered(q)

\* C2 as amended: with include_indices the root is indexed 1 and every other
\* node is indexed by its parent's index, a dot and its 1-based position among
\* its parent's replies (1.1, 1.1.1, 1.1.2, 1.2, 1.2.1, 1.2.2 for the replies
\* of a root with two replies of two replies each).
C2_OutlineIndexFromOne ==
    (pc = "returned" /\ include_indices /\ format_str = IndexedFormat) =>
        \A i \in DOMAIN Fragments :
            IsPrefix(<<"[">> \o OutlineIndex(PathOfFragment(i)) \o <<"]", " ">>, Fragments[i].md)

\* the root with two replies of two replies each, all seven rendered, the
\* last as 1.2.2
C2_Witness ==
    /\ pc = "returned" /\ include_indices /\ format_str = IndexedFormat
    /\ Len(Fragments) = 7
    /\ [i \in 1..7 |-> PathOfFragment(i)]
          = << <<>>, <<1>>, <<1, 1>>, <<1, 2>>, <<2>>, <<2, 1>>, <<2, 2>> >>
    /\ IsPrefix(<<"[", "1", ".", "2", ".", "2", "]", " ">>, Fragments[7].md)

\* C2 as stated: the root has an empty index and the replies are indexed by
\* their positions alone (1, 1.1, 1.2, 2, 2.1, 2.2).
C2_AsStated ==
    (pc = "returned" /\ include_indices /\ format_str = IndexedFormat) =>
        \A i \in DOMAIN Fragments :
            IsPrefix(<<"[">> \o RootlessIndex(PathOfFragment(i)) \o <<"]", " ">>, Fragments[i].md)

\* the call of the state, with no filter
Unfiltered ==
    thread_to_markdown(thread_data, format_str, include_replies, max_depth, "None",
                       include_indices)

\* C3: a node rendered under filter_fn carries the index it carries when the
\* same thread is rendered without a filter.
C3_IndexIndependentOfFilter ==
    (pc = "returned" /\ include_indices /\ format_str = IndexedFormat
        /\ Unfiltered.exc = "none") =>
        \A i \in DOMAIN Fragments :
            \E j \in DOMAIN Unfiltered.post_mds :
                /\ Unfiltered.post_mds[j].uri = Fragments[i].uri
                /\ Unfiltered.post_mds[j].md = Fragments[i].md

\* a node is rendered after an earlier sibling that the filter rejected, or
\* that is malformed, and keeps its position number
C3_Witness ==
    /\ pc = "returned" /\ include_indices /\ format_str = IndexedFormat
    /\ filter_fn # "None" /\ Unfiltered.exc = "none"
    /\ \E path \in NodePaths :
          /\ Rendered(path) /\ path # <<>> /\ path[Len(path)] = 2
          /\ \E q \in Siblings(path) :
                q[Len(q)] = 1 /\ ~Rendered(q) /\ (~WellFormed(q) \/ ~PassesFilter(q))
          /\ \A i \in FragmentsOf(path) :
                IsPrefix(<<"[">> \o OutlineIndex(path) \o <<"]", " ">>, Fragments[i].md)

\* the node is reached by the traversal
Visited(path) ==
    path = <<>> \/ (include_replies /\ DepthAllowed(path) /\ \A a \in Ancestors(path) : Rendered(a))

Children(path) == {q \in Descendants(path) : Len(q) = Len(path) + 1}

\* C4 as amended: with include_replies and max_depth = d >= 0 no node deeper
\* than d has a fragment, and a well-formed node at depth <= d whose ancestors
\* were all rendered, which passes the filter and whose template substitution
\* does not fail with another error than a missing placeholder has one; a
\* negative max_depth limits no depth.
C4_DepthLimit ==
    (pc = "returned" /\ include_replies) =>
        \A path \in NodePaths :
            /\ Rendered(path) => DepthAllowed(path)
            /\ (/\ DepthAllowed(path) /\ \A a \in Ancestors(path) : Rendered(a)
                /\ WellFormed(path) /\ PassesFilter(path) /\ ~RenderFails(path))
               => Rendered(path)

\* max_depth is 1: a reply is rendered and its own reply, which the filter
\* accepts, is not
C4_Witness ==
    /\ pc = "returned" /\ include_replies /\ max_depth = 1
    /\ \E path \in NodePaths :
          /\ Len(path) = 2 /\ WellFormed(path) /\ PassesFilter(path) /\ ~RenderFails(path)
          /\ \A a \in Ancestors(path) : Rendered(a)
          /\ ~Rendered(path)

\* C4 as stated: every node at depth <= d whose ancestors were all rendered
\* and which passes the filter has a fragment.
C4_AsStated ==
    (pc = "returned" /\ include_replies) =>
        \A path \in NodePaths :
            /\ Rendered(path) => DepthAllowed(path)
            /\ (/\ DepthAllowed(path) /\ \A a \in Ancestors(path) : Rendered(a)
                /\ WellFormed(path) /\ PassesFilter(path))
               => Rendered(path)

\* the strings of the first n fragments, one after the other
RECURSIVE ConcatMds(_)
ConcatMds(n) == IF n = 0 THEN <<>> ELSE ConcatMds(n - 1) \o Fragments[n].md

FallbackBody(path) ==
    LET author == Get(PostAt(path), "author", EmptyDict)
        record == Get(PostAt(path), "record", EmptyDict)
    IN <<"*", "*">>
       \o (IF IsDict(author) /\ "displayName" \in DOMAIN author.v
           THEN RawStr(author, "displayName") ELSE RawStr(author, "handle"))
       \o <<"*", "*", " ", "(", "@">> \o RawStr(author, "handle")
       \o <<")", ":", "\n">> \o RawStr(record, "text") \o <<"\n", "\n">>

\* C6 as amended: a template with a placeholder that the context lacks
\* renders every node as the fixed fallback fragment, which begins with "**"
\* when include_indices is off and with "[<index>] " and then "**" when it is on.
C6_FallbackFragment ==
    (pc = "returned" /\ format_str = <<Field("nonexistent")>>) =>
        \A i \in DOMAIN Fragments :
            /\ Fragments[i].fallback
            /\ Fragments[i].md =
                  (IF include_indices
                   THEN <<"[">> \o OutlineIndex(PathOfFragment(i)) \o <<"]", " ">>
                   ELSE <<>>) \o FallbackBody(PathOfFragment(i))
            /\ IsPrefix(<<"*", "*">>, Fragments[i].md) <=> ~include_indices

\* the fallback renders a reply with indices on: its fragment begins with the
\* index prefix
C6_Witness ==
    /\ pc = "returned" /\ format_str = <<Field("nonexistent")>> /\ include_indices
    /\ Len(Fragments) >= 2
    /\ Fragments[2].fallback
    /\ IsPrefix(<<"[", "1", ".", "1", "]", " ", "*", "*">>, Fragments[2].md)

\* C6 as stated: whatever the options, the fallback fragment begins with "**".
C6_AsStated ==
    (pc = "returned" /\ format_str = <<Field("nonexistent")>>) =>
        \A i \in DOMAIN Fragments :
            Fragments[i].fallback /\ IsPrefix(<<"*", "*">>, Fragments[i].md)

SupportedNames ==
    {"displayName", "handle", "text", "createdAt", "replyCount", "repostCount", "likeCount",
     "index", "depth", "indent", "hasImage", "hasQuote", "hasExternal"}

UsesOnlySupported(fs) == \A k \in DOMAIN fs : fs[k].k = "field" => fs[k].name \in SupportedNames

\* every post of the thread is an object with an object author and record
AllPostsWellFormed ==
    \A path \in NodePaths :
        /\ WellFormed(path)
        /\ IsDict(Get(PostAt(path), "author", Null))
        /\ IsDict(Get(PostAt(path), "record", Null))

\* C7: a template of supported placeholders only is substituted as written,
\* never by the fallback (here for well-formed posts and with indices on).
C7_AsStated ==
    (pc = "returned" /\ UsesOnlySupported(format_str) /\ AllPostsWellFormed /\ include_indices) =>
        \A i \in DOMAIN Fragments : ~Fragments[i].fallback

\* C8: no exception leaves thread_to_markdown, whatever node is malformed.
C8_AsStated == pc # "raised"

\* the node is reached and its template substitution fails with another
\* error than a missing placeholder
FailsToRender(path) ==
    Visited(path) /\ WellFormed(path) /\ PassesFilter(path) /\ RenderFails(path)

\* the depth and filter policy lets the node be rendered
Eligible(path) ==
    /\ include_replies /\ DepthAllowed(path)
    /\ WellFormed(path) /\ PassesFilter(path) /\ ~RenderFails(path)

\* C9 as amended: when the template substitution of a node fails with another
\* error than a missing placeholder, the node and its whole reply subtree have
\* no fragment, and its siblings are still rendered.
C9_ErrorPrunesSubtree ==
    pc = "returned" =>
        \A path \in NodePaths :
            FailsToRender(path) =>
                /\ ~Rendered(path)
                /\ \A q \in Descendants(path) : ~Rendered(q)
                /\ \A q \in Siblings(path) : Eligible(q) => Rendered(q)

\* a node fails to render: a sibling is rendered and a reply of the node that
\* the policy lets through is not
C9_Witness ==
    /\ pc = "returned"
    /\ \E path \in NodePaths :
          /\ FailsToRender(path)
          /\ \E q \in Siblings(path) : Rendered(q)
          /\ \E q \in Children(path) : Eligible(q) /\ ~Rendered(q)

\* C9 as stated: only the node's own fragment is omitted; its siblings and
\* its replies are rendered as the policy lets them.
C9_AsStated ==
    pc = "returned" =>
        \A path \in NodePaths :
            FailsToRender(path) =>
                /\ ~Rendered(path)
                /\ \A q \in Children(path) : Eligible(q) => Rendered(q)
                /\ \A q \in Siblings(path) : Eligible(q) => Rendered(q)

\* the thread of C10: a root "Hello" with one reply "World", no media
TwoNodeThread == Dict([thread |-> Build(<< <<>> >>, <<>>, <<>>)])

\* "**Al** (@al):\nHello\n\n"
RootFragment ==
    <<"*", "*", "A", "l", "*", "*", " ", "(", "@", "a", "l", ")", ":", "\n",
      "H", "e", "l", "l", "o", "\n", "\n">>

\* "**Al** (@al):\nWorld\n\n"
ReplyFragment ==
    <<"*", "*", "A", "l", "*", "*", " ", "(", "@", "a", "l", ")", ":", "\n",
      "W", "o", "r", "l", "d", "\n", "\n">>

\* the call of C10: the two-node thread, include_indices and the defaults
TwoNodeCall ==
    /\ pc = "returned" /\ thread_data = TwoNodeThread /\ format_str = DefaultFormat
    /\ include_indices /\ include_replies /\ max_depth = -1 /\ filter_fn = "None"

\* C10 as amended: the output is the root fragment followed by the reply
\* fragment, neither with an index prefix (the default template has no index
\* placeholder).
C10_TwoNodeDefault ==
    TwoNodeCall =>
        /\ Len(Fragments) = 2
        /\ Fragments[1].md = RootFragment
        /\ Fragments[2].md = ReplyFragment
        /\ result.markdown = RootFragment \o ReplyFragment

C10_Witness == TwoNodeCall /\ result.markdown = RootFragment \o ReplyFragment

\* C10 as stated: the reply fragment follows the root fragment and has a
\* prefix with the index 1.
C10_AsStated ==
    TwoNodeCall =>
        /\ Len(Fragments) = 2
        /\ Fragments[1].md = RootFragment
        /\ LET md == Fragments[2].md
               n == Len(md) - Len(ReplyFragment)
           IN /\ n >= 1
              /\ SubSeq(md, n + 1, Len(md)) = ReplyFragment
              /\ Contains(<<"1">>, SubSeq(md, 1, n))

(***************************************************************************)
(* get_post_thread.py: the media descriptors of a raw post.                *)
(* Python's None is the JSON null.  Every access of the function goes      *)
(* through safe_get or follows an isinstance test, so no step of it can    *)
(* raise: the function has no exceptional exit to model.                   *)
(***************************************************************************)
\* the truth value Python gives a JSON value in "if x:" and "x or y"
Truthy(x) ==
    CASE x.t = "str" -> x.v # <<>>
      [] x.t = "int" -> x.v # 0
      [] x.t = "bool" -> x.v
      [] x.t = "null" -> FALSE
      [] x.t = "list" -> x.v # <<>>
      [] x.t = "dict" -> DOMAIN x.v # {}

\* Python's "a or b"
OrElse(a, b) == IF Truthy(a) THEN a ELSE b

IsStr(x) == x.t = "str"

IsNone(x) == x.t = "null"

RECURSIVE safe_get(_, _, _)
\* safe_get(obj, *keys, default): walks the keys, default as soon as the
\* current value is no dict or lacks the key
safe_get(obj, keys, default) ==
    IF keys = <<>> THEN obj
    ELSE IF ~IsDict(obj) THEN default
    ELSE IF Head(keys) \notin DOMAIN obj.v THEN default
    ELSE safe_get(obj.v[Head(keys)], Tail(keys), default)

T_image == <<"i","m","a","g","e">>
T_link == <<"l","i","n","k">>
T_video == <<"v","i","d","e","o">>
T_media == <<"m","e","d","i","a">>
S_hls == <<"h","l","s">>
S_cdn == <<"h","t","t","p","s",":","/","/","c","d","n",".","b","s","k","y",".","a","p","p","/",
           "i","m","g","/","f","e","e","d","_","t","h","u","m","b","n","a","i","l","/",
           "p","l","a","i","n","/">>
S_jpeg == <<"@","j","p","e","g">>

\* the embed of the post: post["embed"] whenever the key is there, whatever
\* its value; record.embed only when the key is not there
LocateEmbed(post) ==
    IF "embed" \in DOMAIN post.v THEN post.v["embed"]
    ELSE IF ~IsNone(safe_get(post, <<"record", "embed">>, Null))
         THEN safe_get(post, <<"record", "embed">>, Null)
         ELSE Null

RECURSIVE ImageEntries(_)
\* the loop over embed.images: one image per entry that is a dict with a
\* non-empty string "fullsize"
ImageEntries(images) ==
    IF images = <<>> THEN <<>>
    ELSE LET image == Head(images)
             fullsize == safe_get(image, <<"fullsize">>, Null)
             one == IF IsDict(image) /\ IsStr(fullsize) /\ Truthy(fullsize)
                    THEN <<Dict([type |-> Str(T_image), uri |-> fullsize,
                                 alt |-> safe_get(image, <<"alt">>, EmptyStr)])>>
                    ELSE <<>>
         IN one \o ImageEntries(Tail(images))

ImagesProbe(embed) ==
    LET images == safe_get(embed, <<"images">>, Null)
    IN IF IsList(images) THEN ImageEntries(images.v) ELSE <<>>

\* embed.external: the url is tested for truth only, never for being a string
LinkProbe(embed) ==
    LET external == safe_get(embed, <<"external">>, Null)
        uri == safe_get(external, <<"uri">>, EmptyStr)
        thumb == safe_get(external, <<"thumb">>, Null)
        thumb_url == safe_get(thumb, <<"url">>, EmptyStr)
        link == [type |-> Str(T_link), uri |-> uri,
                 title |-> safe_get(external, <<"title">>, EmptyStr),
                 description |-> safe_get(external, <<"description">>, EmptyStr)]
    IN IF IsDict(external) /\ Truthy(uri)
       THEN IF IsDict(thumb) /\ Truthy(thumb_url)
            THEN <<Dict(link @@ [thumbnail |-> thumb_url])>>
            ELSE <<Dict(link)>>
       ELSE <<>>

\* a video object read as "url" or else "currentSrc": embed.video, media.video
\* and the video of an item of media.items are all read this way
VideoObject(video) ==
    LET url == OrElse(safe_get(video, <<"url">>, Null), safe_get(video, <<"currentSrc">>, EmptyStr))
    IN IF IsDict(video) /\ Truthy(url)
       THEN <<Dict([type |-> Str(T_video), uri |-> url,
                    poster |-> safe_get(video, <<"poster">>, EmptyStr)])>>
       ELSE <<>>

VideoProbe(embed) == VideoObject(safe_get(embed, <<"video">>, Null))

MediaVideoProbe(media_obj) == VideoObject(safe_get(media_obj, <<"video">>, Null))

\* the image of an item of media.items, read as "url" or else "fullsize"
ItemImage(image) ==
    LET url == OrElse(safe_get(image, <<"url">>, Null), safe_get(image, <<"fullsize">>, EmptyStr))
    IN IF IsDict(image) /\ Truthy(url)
       THEN <<Dict([type |-> Str(T_image), uri |-> url,
                    alt |-> safe_get(image, <<"alt">>, EmptyStr)])>>
       ELSE <<>>

\* one turn of the loop over media.items: the item's video, then its image
ItemMedia(item) ==
    IF ~IsDict(item) THEN <<>>
    ELSE VideoObject(safe_get(item, <<"video">>, Null))
         \o ItemImage(safe_get(item, <<"image">>, Null))

RECURSIVE ItemEntries(_)
RECURSIVE ItemEntries_LastFirst(_)

\* ItemEntries with a fault: the media of the later items are put first
ItemEntries_LastFirst(items) ==
    IF items = <<>> THEN <<>> ELSE ItemEntries_LastFirst(Tail(items)) \o ItemMedia(Head(items))

\* the loop over media.items
ItemEntries(items) ==
    IF items = <<>> THEN <<>> ELSE ItemMedia(Head(items)) \o ItemEntries(Tail(items))

ItemsProbe(media_obj) ==
    LET items == safe_get(media_obj, <<"items">>, Null)
    IN IF IsList(items) THEN ItemEntries(items.v) ELSE <<>>

\* media.ref: a blob reference turned into a thumbnail url of the CDN
RefProbe(media_obj) ==
    LET ref == safe_get(media_obj, <<"ref">>, Null)
        ref_link == safe_get(ref, <<"$link">>, Null)
    IN IF IsDict(ref) /\ "$link" \in DOMAIN ref.v /\ IsStr(ref_link)
       THEN <<Dict([type |-> Str(T_media), uri |-> Str(S_cdn \o ref_link.v \o S_jpeg),
                    ref |-> ref_link])>>
       ELSE <<>>

MediaProbes(embed) ==
    LET media_obj == safe_get(embed, <<"media">>, Null)
    IN IF IsDict(media_obj)
       THEN MediaVideoProbe(media_obj) \o ItemsProbe(media_obj) \o RefProbe(media_obj)
       ELSE <<>>

PlaylistProbe(embed) ==
    LET playlist == safe_get(embed, <<"playlist">>, Null)
    IN IF IsStr(playlist) /\ Truthy(playlist)
       THEN <<Dict([type |-> Str(T_video), uri |-> playlist, format |-> Str(S_hls)])>>
       ELSE <<>>

\* the post's embedView.video: "url" alone is read
EmbedViewProbe(post) ==
    LET embedView_video == safe_get(post, <<"embedView", "video">>, Null)
        url == safe_get(embedView_video, <<"url">>, EmptyStr)
    IN IF IsDict(embedView_video) /\ Truthy(url)
       THEN <<Dict([type |-> Str(T_video), uri |-> url,
                    poster |-> safe_get(embedView_video, <<"poster">>, EmptyStr)])>>
       ELSE <<>>

\* Probes with a fault: the video of embedView is probed with the other videos
Probes_EmbedViewWithVideos(post, embed) ==
    ImagesProbe(embed) \o LinkProbe(embed) \o VideoProbe(embed) \o MediaProbes(embed)
    \o EmbedViewProbe(post) \o PlaylistProbe(embed)

\* the probes in the order of the code
Probes(post, embed) ==
    ImagesProbe(embed) \o LinkProbe(embed) \o VideoProbe(embed) \o MediaProbes(embed)
    \o PlaylistProbe(embed) \o EmbedViewProbe(post)

_extract_media_from_post(post) ==
    IF ~IsDict(post) THEN <<>>
    ELSE LET embed == LocateEmbed(post)
         IN IF ~IsDict(embed) THEN <<>> ELSE Probes(post, embed)

(***************************************************************************)
(* The raw posts _extract_media_from_post is applied to.  A post has each  *)
(* media location absent or well-formed, and at most one location in some  *)
(* other form; every location carries a url of its own, so a descriptor    *)
(* tells where it was read.                                                *)
(***************************************************************************)
MaxImages == 2       \* longest embed.images array
MaxItems == 2        \* longest embed.media.items array

Absent == [t |-> "absent"]

IsAbsent(x) == x.t = "absent"

\* the dict of those keys whose value is not Absent
DictOf(f) == Dict([k \in {k \in DOMAIN f : ~IsAbsent(f[k])} |-> f[k]])

SeqsUpTo(S, n) == UNION {[1..k -> S] : k \in 1..n}

S_alt == <<"a", "l", "t">>
S_poster == <<"p", "o", "s", "t", "e", "r">>

ImageKinds == {"full", "empty", "int", "str"}

ImageEntry(kind, i) ==
    CASE kind = "full" -> Dict([fullsize |-> Str(<<"i", Digit(i)>>), alt |-> Str(S_alt)])
      [] kind = "empty" -> Dict([fullsize |-> EmptyStr, alt |-> Str(S_alt)])
      [] kind = "int" -> Dict([fullsize |-> IntV(5)])
      [] kind = "str" -> Str(<<"i", Digit(i)>>)

ImageList(kinds) == List([i \in 1..Len(kinds) |-> ImageEntry(kinds[i], i)])

VideoKinds == {"url", "src", "both", "empty_url", "null_url", "int_url", "none", "str"}

\* a video object whose url is u; its currentSrc, when it has both, is u + "c"
VideoObj(kind, u) ==
    CASE kind = "url" -> Dict([url |-> Str(u), poster |-> Str(S_poster)])
      [] kind = "src" -> Dict([currentSrc |-> Str(u), poster |-> Str(S_poster)])
      [] kind = "both" -> Dict([url |-> Str(u), currentSrc |-> Str(u \o <<"c">>)])
      [] kind = "empty_url" -> Dict([url |-> EmptyStr, currentSrc |-> Str(u)])
      [] kind = "null_url" -> Dict([url |-> Null, currentSrc |-> Str(u)])
      [] kind = "int_url" -> Dict([url |-> IntV(5)])
      [] kind = "none" -> Dict([poster |-> Str(S_poster)])
      [] kind = "str" -> Str(u)

ItemKinds == {"video", "video_src", "image", "image_url", "both", "empty", "str"}

ItemEntry(kind, i) ==
    LET a == <<"a", Digit(i)>>
        b == <<"b", Digit(i)>>
    IN CASE kind = "video" -> Dict([video |-> VideoObj("url", a)])
         [] kind = "video_src" -> Dict([video |-> VideoObj("src", a)])
         [] kind = "image" -> Dict([image |-> Dict([fullsize |-> Str(b), alt |-> Str(S_alt)])])
         [] kind = "image_url" -> Dict([image |-> Dict([url |-> Str(b)])])
         [] kind = "both" -> Dict([video |-> VideoObj("url", a), image |-> Dict([url |-> Str(b)])])
         [] kind = "empty" -> EmptyDict
         [] kind = "str" -> Str(a)

ItemList(kinds) == List([i \in 1..Len(kinds) |-> ItemEntry(kinds[i], i)])

ExternalKinds == {"thumb", "plain", "empty", "int", "null"}

External(kind) ==
    CASE kind = "thumb" -> Dict([uri |-> Str(<<"x">>), title |-> Str(S_Hello),
                                 thumb |-> Dict([url |-> Str(<<"t">>)])])
      [] kind = "plain" -> Dict([uri |-> Str(<<"x">>), description |-> Str(S_World)])
      [] kind = "empty" -> Dict([uri |-> EmptyStr, title |-> Str(S_Hello)])
      [] kind = "int" -> Dict([uri |-> IntV(5)])
      [] kind = "null" -> Null

Locations == {"images", "external", "video", "media_video", "items", "ref", "playlist",
              "embedView", "media"}

\* the well-formed value of a location
Good(loc) ==
    CASE loc = "images" -> ImageList([i \in 1..MaxImages |-> "full"])
      [] loc = "external" -> External("thumb")
      [] loc = "video" -> VideoObj("url", <<"v">>)
      [] loc = "media_video" -> VideoObj("url", <<"m">>)
      [] loc = "items" -> ItemList([i \in 1..MaxItems |-> IF i % 2 = 1 THEN "video" ELSE "image"])
      [] loc = "ref" -> Dict("$link" :> Str(<<"r">>))
      [] loc = "playlist" -> Str(<<"p">>)
      [] loc = "embedView" -> VideoObj("url", <<"e">>)
      [] loc = "media" -> Absent

\* the other values a location takes
Odd(loc) ==
    CASE loc = "images" -> {ImageList(k) : k \in SeqsUpTo(ImageKinds, MaxImages)} \cup {Str(<<"i">>)}
      [] loc = "external" -> {External(k) : k \in ExternalKinds}
      [] loc = "video" -> {VideoObj(k, <<"v">>) : k \in VideoKinds}
      [] loc = "media_video" -> {VideoObj(k, <<"m">>) : k \in VideoKinds}
      [] loc = "items" -> {ItemList(k) : k \in SeqsUpTo(ItemKinds, MaxItems)} \cup {Str(<<"a">>)}
      [] loc = "ref" -> {Dict("$link" :> IntV(5)), EmptyDict, Dict("$link" :> EmptyStr)}
      [] loc = "playlist" -> {EmptyStr, IntV(5)}
      [] loc = "embedView" -> {VideoObj(k, <<"e">>) : k \in VideoKinds}
      [] loc = "media" -> {Str(<<"m">>), Null}

\* where the embed of a post is put
Wheres == {"embed", "record", "null_embed", "str_embed", "empty_embed", "none"}

\* the post with the locations c, its embed put as `where` says
BuildPost(c, where) ==
    LET media_obj == IF ~IsAbsent(c["media"]) THEN c["media"]
                     ELSE IF IsAbsent(c["media_video"]) /\ IsAbsent(c["items"]) /\ IsAbsent(c["ref"])
                          THEN Absent
                          ELSE DictOf([video |-> c["media_video"], items |-> c["items"],
                                       ref |-> c["ref"]])
        embed == DictOf([images |-> c["images"], external |-> c["external"],
                         video |-> c["video"], media |-> media_obj, playlist |-> c["playlist"]])
        record == Dict([text |-> Str(S_Hello), embed |-> embed])
        embedView == IF IsAbsent(c["embedView"]) THEN Absent ELSE Dict([video |-> c["embedView"]])
    IN CASE where = "embed" -> DictOf([embed |-> embed, embedView |-> embedView])
         [] where = "record" -> DictOf([record |-> record, embedView |-> embedView])
         [] where = "null_embed" -> DictOf([embed |-> Null, record |-> record, embedView |-> embedView])
         [] where = "str_embed" -> DictOf([embed |-> Str(S_Hello), record |-> record,
                                           embedView |-> embedView])
         [] where = "empty_embed" -> DictOf([embed |-> EmptyDict, record |-> record,
                                             embedView |-> embedView])
         [] where = "none" -> DictOf([record |-> Dict([text |-> Str(S_Hello)]),
                                      embedView |-> embedView])

\* which locations are there, "media" apart
Presences == [Locations \ {"media"} -> BOOLEAN]

Locs(present, oddLoc, oddValue) ==
    [loc \in Locations |->
        IF loc = oddLoc THEN oddValue
        ELSE IF loc # "media" /\ present[loc] THEN Good(loc) ELSE Absent]

\* the raw posts: every presence of the locations under every place of the
\* embed, every odd value of one location, and values that are no post at all
IsRawPost(v) ==
    \/ \E p \in Presences, w \in Wheres : v = BuildPost(Locs(p, "none", Absent), w)
    \/ \E p \in Presences, loc \in Locations : \E o \in Odd(loc) : v = BuildPost(Locs(p, loc, o), "embed")
    \/ v \in {Null, Str(S_Hello), List(<<>>)}

(***************************************************************************)
(* The state machine of a call of _extract_media_from_post.                *)
(***************************************************************************)
InitMedia ==
    /\ IsRawPost(raw_post)
    /\ media_pc = "called"
    /\ media_out = <<>>
    /\ ComposeIdle
    /\ FetchIdle
    /\ MdIdle
    /\ AiIdle

\* _extract_media_from_post returns its list
ExtractMedia ==
    /\ media_pc = "called"
    /\ media_out' = _extract_media_from_post(raw_post)
    /\ media_pc' = "returned"
    /\ UNCHANGED <<raw_post, composeVars, fetchVars, mdVars, aiVars>>

NextMedia == ExtractMedia

SpecMedia == InitMedia /\ [][NextMedia]_vars

(***************************************************************************)
(* The media of a state, as the claims speak of them.                      *)
(***************************************************************************)
MediaReturned == media_pc = "returned"

NonEmptyStr(x) == IsStr(x) /\ x.v # <<>>

\* the descriptor d has the string u as its uri
UriIs(d, u) == IsStr(d.v["uri"]) /\ d.v["uri"].v = u

TypeIs(d, type) == d.v["type"].v = type

DirectEmbed == safe_get(raw_post, <<"embed">>, Null)

RecordEmbed == safe_get(raw_post, <<"record", "embed">>, Null)

\* the embed of the post: the direct one if it is an object, else record.embed
\* if that is an object
StructuredEmbed ==
    IF IsDict(DirectEmbed) THEN DirectEmbed
    ELSE IF IsDict(RecordEmbed) THEN RecordEmbed ELSE Null

StrSet(x) == IF NonEmptyStr(x) THEN {x.v} ELSE {}

\* the urls of the well-formed images of embed.images
WellFormedImages(embed) ==
    LET images == safe_get(embed, <<"images">>, Null)
    IN IF IsList(images)
       THEN UNION {StrSet(safe_get(images.v[i], <<"fullsize">>, Null)) : i \in 1..Len(images.v)}
       ELSE {}

\* the urls of the well-formed images, link, videos and playlist of an embed
WellFormedUris(embed) ==
    WellFormedImages(embed)
    \cup StrSet(safe_get(embed, <<"external", "uri">>, Null))
    \cup StrSet(safe_get(embed, <<"video", "url">>, Null))
    \cup StrSet(safe_get(embed, <<"media", "video", "url">>, Null))
    \cup StrSet(safe_get(embed, <<"playlist">>, Null))

Extracted(u) == \E i \in 1..Len(media_out) : UriIs(media_out[i], u)

\* C11: _extract_media_from_post returns a list for every raw post, and the
\* well-formed images, link, videos and playlist of the post's embed are
\* extracted whatever else of the post is absent, null or of another type.
C11_AsStated ==
    MediaReturned => \A u \in WellFormedUris(StructuredEmbed) : Extracted(u)

\* C12: every descriptor _extract_media_from_post returns has a uri that is a
\* non-empty string.
C12_AsStated ==
    MediaReturned => \A i \in 1..Len(media_out) : NonEmptyStr(media_out[i].v["uri"])

\* C13: the media are those of post.embed or of post.record.embed, whichever
\* is an object, and the empty list only when neither is an object.
C13_AsStated ==
    MediaReturned =>
        media_out = IF IsDict(StructuredEmbed) THEN Probes(raw_post, StructuredEmbed) ELSE <<>>

(***************************************************************************)
(* Where a descriptor was read: every location of the raw posts has a url  *)
(* of its own.                                                             *)
(***************************************************************************)
SameValue(a, b) == a.t = b.t /\ (a.t = "null" \/ a.v = b.v)

\* the uri of descriptor d is one of the urls of the object obj
ReadFrom(d, obj) ==
    /\ IsDict(obj)
    /\ \E k \in {"url", "currentSrc", "fullsize"} \cap DOMAIN obj.v : SameValue(d.v["uri"], obj.v[k])

\* the embed of the post as the code locates it
LocatedEmbed == IF IsDict(raw_post) THEN LocateEmbed(raw_post) ELSE Null

ListOf(x) == IF IsList(x) THEN x.v ELSE <<>>

EmbedImages == ListOf(safe_get(LocatedEmbed, <<"images">>, Null))

MediaItems == ListOf(safe_get(LocatedEmbed, <<"media", "items">>, Null))

IsHls(d) == TypeIs(d, T_video) /\ "format" \in DOMAIN d.v

\* the probe a descriptor of media_out comes from
ProbeName(d) ==
    CASE TypeIs(d, T_link) -> "link"
      [] TypeIs(d, T_media) -> "ref"
      [] IsHls(d) -> "playlist"
      [] TypeIs(d, T_image) ->
            IF \E i \in 1..Len(EmbedImages) : ReadFrom(d, EmbedImages[i])
            THEN "images" ELSE "item_image"
      [] OTHER ->
            IF ReadFrom(d, safe_get(LocatedEmbed, <<"video">>, Null)) THEN "video"
            ELSE IF ReadFrom(d, safe_get(LocatedEmbed, <<"media", "video">>, Null)) THEN "media_video"
            ELSE IF ReadFrom(d, safe_get(raw_post, <<"embedView", "video">>, Null)) THEN "embedView"
            ELSE "item_video"

\* the entry of media.items a descriptor of an item comes from
ItemIndex(d) ==
    CHOOSE j \in 1..Len(MediaItems) :
        \/ ReadFrom(d, safe_get(MediaItems[j], <<"video">>, Null))
        \/ ReadFrom(d, safe_get(MediaItems[j], <<"image">>, Null))

IsItemDescriptor(d) == ProbeName(d) \in {"item_video", "item_image"}

\* the place of a probe in the code
Stage(d) ==
    CASE ProbeName(d) = "images" -> 1
      [] ProbeName(d) = "link" -> 2
      [] ProbeName(d) = "video" -> 3
      [] ProbeName(d) = "media_video" -> 4
      [] IsItemDescriptor(d) -> 5
      [] ProbeName(d) = "ref" -> 6
      [] ProbeName(d) = "playlist" -> 7
      [] ProbeName(d) = "embedView" -> 8

\* the place of a probe in the order: images, link, the four video probes,
\* the images of the items, the ref, the playlist
StageAsStated(d) ==
    CASE ProbeName(d) = "images" -> 1
      [] ProbeName(d) = "link" -> 2
      [] ProbeName(d) = "video" -> 3
      [] ProbeName(d) = "media_video" -> 4
      [] ProbeName(d) = "item_video" -> 5
      [] ProbeName(d) = "embedView" -> 6
      [] ProbeName(d) = "item_image" -> 7
      [] ProbeName(d) = "ref" -> 8
      [] ProbeName(d) = "playlist" -> 9

\* d1 may stand before d2: an earlier probe, or within media.items an earlier
\* entry, or the video of an entry before its image
MayPrecede(d1, d2) ==
    \/ Stage(d1) < Stage(d2)
    \/ /\ Stage(d1) = Stage(d2)
       /\ IsItemDescriptor(d1) =>
            \/ ItemIndex(d1) < ItemIndex(d2)
            \/ ItemIndex(d1) = ItemIndex(d2) /\ ~(TypeIs(d1, T_image) /\ TypeIs(d2, T_video))

\* C14 (as amended): the descriptors stand in the order images, link,
\* embed.video, media.video, then entry by entry of media.items the video of
\* the entry and its image, then the ref, the playlist and, last, the video of
\* embedView; a descriptor of a later probe never precedes one of an earlier.
C14_ProbeOrder ==
    MediaReturned =>
        \A i, j \in 1..Len(media_out) : i < j => MayPrecede(media_out[i], media_out[j])

\* a post with playlist and embedView video, and an item image before an item video
C14_Witness ==
    /\ MediaReturned
    /\ \E i, j \in 1..Len(media_out) :
        i < j /\ ProbeName(media_out[i]) = "playlist" /\ ProbeName(media_out[j]) = "embedView"
    /\ \E i, j \in 1..Len(media_out) :
        i < j /\ ProbeName(media_out[i]) = "item_image" /\ ProbeName(media_out[j]) = "item_video"
    /\ \E i \in 1..Len(media_out) : ProbeName(media_out[i]) = "images"
    /\ \E i \in 1..Len(media_out) : ProbeName(media_out[i]) = "ref"

\* C14 as stated: the order is images, link, the videos of embed.video,
\* media.video, the items and embedView, then the images of the items, the ref
\* and the playlist.
C14_AsStated ==
    MediaReturned =>
        \A i, j \in 1..Len(media_out) :
            i < j => StageAsStated(media_out[i]) <= StageAsStated(media_out[j])

\* an object with a non-empty string under "url" or under the key alt
Resolvable(obj, alt) ==
    /\ IsDict(obj)
    /\ \/ NonEmptyStr(safe_get(obj, <<"url">>, Null))
       \/ NonEmptyStr(safe_get(obj, <<alt>>, Null))

\* what an entry of media.items carries: a video alone, an image alone, or else
EntryKind(item) ==
    IF ~IsDict(item) THEN "other"
    ELSE IF DOMAIN item.v = {"video"} /\ Resolvable(item.v["video"], "currentSrc") THEN "video"
    ELSE IF DOMAIN item.v = {"image"} /\ Resolvable(item.v["image"], "fullsize") THEN "image"
    ELSE "other"

ItemDescriptors == SelectSeq(media_out, IsItemDescriptor)

\* C15: when every entry of media.items carries either a video or an image
\* with a resolvable url, the descriptors of the items are one per entry, of
\* the kind of the entry, in the order of the entries.
C15_OnePerItemInOrder ==
    (MediaReturned /\ IsDict(LocatedEmbed) /\ MediaItems # <<>>
        /\ \A j \in 1..Len(MediaItems) : EntryKind(MediaItems[j]) # "other") =>
        /\ Len(ItemDescriptors) = Len(MediaItems)
        /\ \A j \in 1..Len(MediaItems) :
            LET kind == EntryKind(MediaItems[j])
            IN /\ TypeIs(ItemDescriptors[j], IF kind = "video" THEN T_video ELSE T_image)
               /\ ~IsHls(ItemDescriptors[j])
               /\ ReadFrom(ItemDescriptors[j], MediaItems[j].v[kind])

\* items [video, image] among other media gave one Video then one Image
C15_Witness ==
    /\ MediaReturned
    /\ Len(MediaItems) = 2
    /\ EntryKind(MediaItems[1]) = "video"
    /\ EntryKind(MediaItems[2]) = "image"
    /\ Len(ItemDescriptors) = 2
    /\ TypeIs(ItemDescriptors[1], T_video)
    /\ TypeIs(ItemDescriptors[2], T_image)
    /\ Len(media_out) > 2

\* a video object with a non-empty "url" or, failing that, a non-empty "currentSrc"
HasSource(video) == Resolvable(video, "currentSrc")

\* its "url" if that is a non-empty string, otherwise its "currentSrc"
ResolvedUri(video) ==
    IF NonEmptyStr(safe_get(video, <<"url">>, Null)) THEN video.v["url"].v
    ELSE video.v["currentSrc"].v

\* the Video descriptors of media_out with the uri u
VideosWith(u) ==
    {i \in 1..Len(media_out) :
        TypeIs(media_out[i], T_video) /\ ~IsHls(media_out[i]) /\ UriIs(media_out[i], u)}

\* a video object with a source gave exactly one Video descriptor, with a poster
YieldsVideo(video) ==
    HasSource(video) =>
        /\ Cardinality(VideosWith(ResolvedUri(video))) = 1
        /\ \A i \in VideosWith(ResolvedUri(video)) : "poster" \in DOMAIN media_out[i].v

\* C16: embed.video, media.video, the video of each entry of media.items and
\* the post's embedView.video each give exactly one Video descriptor with a
\* poster whenever the video object has a non-empty url or, failing that, a
\* non-empty currentSrc, and the uri is the url, otherwise the currentSrc.
C16_AsStated ==
    (MediaReturned /\ IsDict(LocatedEmbed)) =>
        /\ YieldsVideo(safe_get(LocatedEmbed, <<"video">>, Null))
        /\ YieldsVideo(safe_get(LocatedEmbed, <<"media", "video">>, Null))
        /\ \A j \in 1..Len(MediaItems) : YieldsVideo(safe_get(MediaItems[j], <<"video">>, Null))
        /\ YieldsVideo(safe_get(raw_post, <<"embedView", "video">>, Null))

(***************************************************************************)
(* get_post_thread.py: the thread normalizer.  The module has its own      *)
(* _process_thread_node; the one of get_post_thread.py is named            *)
(* gpt_process_thread_node here.                                           *)
(***************************************************************************)
\* x if it is a dict, else {}: "if not isinstance(x, dict): x = {}"
DictOrEmpty(x) == IF IsDict(x) THEN x ELSE EmptyDict

author_clean(post_data) ==
    LET author == DictOrEmpty(Get(post_data, "author", EmptyDict))
    IN Dict([did |-> Get(author, "did", EmptyStr),
             handle |-> Get(author, "handle", EmptyStr),
             display_name |-> Get(author, "displayName", EmptyStr),
             avatar |-> Get(author, "avatar", EmptyStr)])

\* the clean post of a raw post, its replies apart
clean_post(post_data) ==
    LET record == DictOrEmpty(Get(post_data, "record", EmptyDict))
        media == _extract_media_from_post(post_data)
        viewer == DictOrEmpty(Get(post_data, "viewer", EmptyDict))
    IN [uri |-> Get(post_data, "uri", EmptyStr),
        cid |-> Get(post_data, "cid", EmptyStr),
        author |-> author_clean(post_data),
        text |-> Get(record, "text", EmptyStr),
        created_at |-> Get(record, "createdAt", EmptyStr),
        media |-> List(media),
        liked_by_me |-> Get(viewer, "like", Bool(FALSE)),
        reposted_by_me |-> Get(viewer, "repost", Bool(FALSE)),
        reply_count |-> Get(post_data, "replyCount", IntV(0)),
        repost_count |-> Get(post_data, "repostCount", IntV(0)),
        like_count |-> Get(post_data, "likeCount", IntV(0))]

RECURSIVE gpt_process_thread_node(_)
RECURSIVE NormalizeReplies(_)

RECURSIVE NormalizeReplies_Prepend(_)

\* NormalizeReplies with a fault: a reply is put before the ones already there
NormalizeReplies_Prepend(reply_list) ==
    IF reply_list = <<>> THEN <<>>
    ELSE LET reply_data == gpt_process_thread_node(Head(reply_list))
         IN NormalizeReplies_Prepend(Tail(reply_list))
            \o (IF Truthy(reply_data) THEN <<reply_data>> ELSE <<>>)

\* the loop over reply_list: a reply is appended when its clean post is not empty
NormalizeReplies(reply_list) ==
    IF reply_list = <<>> THEN <<>>
    ELSE LET reply_data == gpt_process_thread_node(Head(reply_list))
         IN (IF Truthy(reply_data) THEN <<reply_data>> ELSE <<>>)
            \o NormalizeReplies(Tail(reply_list))

gpt_process_thread_node(node) ==
    IF ~IsDict(node) THEN EmptyDict
    ELSE LET post_data == Get(node, "post", EmptyDict)
         IN IF ~IsDict(post_data) THEN EmptyDict
            ELSE LET reply_list == Get(node, "replies", List(<<>>))
                     replies == NormalizeReplies(IF IsList(reply_list) THEN reply_list.v ELSE <<>>)
                 IN IF replies # <<>>
                    THEN Dict(Put(clean_post(post_data), "replies", List(replies)))
                    ELSE Dict(clean_post(post_data))

(***************************************************************************)
(* The raw threads get_post_thread receives: the threads of the shapes     *)
(* above, with at most MaxOdd nodes that are not a plain raw post.         *)
(***************************************************************************)
S_At == <<"a", "t", ":", "/", "/", "l">>

\* a well-formed raw post without media
RawPlain(uri, text) ==
    [uri |-> Str(uri),
     cid |-> Str(<<"c">> \o uri),
     author |-> Dict([did |-> Str(<<"d">>), handle |-> Str(<<"a", "l">>),
                      displayName |-> Str(<<"A", "l">>), avatar |-> Str(<<"p">>)]),
     record |-> Dict([text |-> Str(text), createdAt |-> Str(<<"2", "0", "2", "5">>)]),
     viewer |-> EmptyDict,
     replyCount |-> IntV(2),
     repostCount |-> IntV(0),
     likeCount |-> IntV(20)]

\* the other raw nodes: a plain one with one part changed
RawKinds == {"no_post", "empty_post", "str_post", "null_node", "no_handle", "no_display",
             "no_author", "bare", "null_count", "neg_count", "str_count", "liked", "images",
             "str_replies"}

RawPost(kind, uri, text) ==
    LET plain == RawPlain(uri, text)
    IN CASE kind = "empty_post" -> EmptyDict
         [] kind = "str_post" -> Str(uri)
         [] kind = "no_handle" -> Dict(Put(plain, "author", Dict([displayName |-> Str(<<"A", "l">>)])))
         [] kind = "no_display" -> Dict(Put(plain, "author", Dict([handle |-> Str(<<"a", "l">>)])))
         [] kind = "no_author" -> Dict(Put(plain, "author", Null))
         [] kind = "bare" -> Dict([uri |-> Str(uri)])
         [] kind = "null_count" -> Dict(Put(plain, "likeCount", Null))
         [] kind = "neg_count" -> Dict(Put(plain, "replyCount", IntV(-1)))
         [] kind = "str_count" -> Dict(Put(plain, "repostCount", Str(<<"3">>)))
         [] kind = "liked" -> Dict(Put(plain, "viewer", Dict([like |-> Str(S_At), repost |-> Str(S_At)])))
         [] kind = "images" -> Dict(Put(plain, "embed", Dict([images |-> Good("images")])))
         [] OTHER -> Dict(plain)

RECURSIVE RawBuild(_, _, _)
RawBuild(shape, path, odd) ==
    LET kind == IF path \in DOMAIN odd THEN odd[path] ELSE "plain"
        replies == List([i \in 1..Len(shape) |-> RawBuild(shape[i], Append(path, i), odd)])
    IN CASE kind = "null_node" -> Null
         [] kind = "no_post" -> Dict([notFound |-> Bool(TRUE), replies |-> replies])
         [] kind = "str_replies" ->
                Dict([post |-> RawPost(kind, UriOf(path), S_World), replies |-> Str(S_Hello)])
         [] OTHER ->
                Dict([post |-> RawPost(kind, UriOf(path), IF path = <<>> THEN S_Hello ELSE S_World),
                      replies |-> replies])

\* the JSON documents of the response
IsResponse(v) ==
    \/ \E shape \in Shapes(MaxTreeDepth) :
        \E S \in {T \in SUBSET ShapePaths(shape, <<>>) : Cardinality(T) <= MaxOdd} :
            \E odd \in [S -> RawKinds] : v = Dict([thread |-> RawBuild(shape, <<>>, odd)])
    \/ v \in {EmptyDict, Dict([thread |-> EmptyDict])}
    \/ v = List(<<>>)

(***************************************************************************)
(* The state machine of a call of get_post_thread.                         *)
(***************************************************************************)
InitFetch ==
    /\ IsResponse(api_data)
    /\ fetch_pc = "called"
    /\ thread_out = Null
    /\ ComposeIdle
    /\ MediaIdle
    /\ MdIdle
    /\ AiIdle

\* the thread of the response, normalized
Normalized == gpt_process_thread_node(Get(api_data, "thread", EmptyDict))

\* the thread normalizes to a clean post, which is returned
ReturnThread ==
    /\ fetch_pc = "called"
    /\ IsDict(api_data)
    /\ Truthy(Normalized)
    /\ thread_out' = Normalized
    /\ fetch_pc' = "returned"
    /\ UNCHANGED <<api_data, composeVars, mediaVars, mdVars, aiVars>>

\* the thread normalizes to {}: None is returned
ReturnNone ==
    /\ fetch_pc = "called"
    /\ IsDict(api_data)
    /\ ~Truthy(Normalized)
    /\ thread_out' = Null
    /\ fetch_pc' = "returned"
    /\ UNCHANGED <<api_data, composeVars, mediaVars, mdVars, aiVars>>

\* the request fails or the body is no JSON: None is returned
RequestFails ==
    /\ fetch_pc = "called"
    /\ thread_out' = Null
    /\ fetch_pc' = "failed"
    /\ UNCHANGED <<api_data, composeVars, mediaVars, mdVars, aiVars>>

\* the document is no object: data.get raises AttributeError, which no except
\* clause of get_post_thread catches
RaiseAttributeError ==
    /\ fetch_pc = "called"
    /\ ~IsDict(api_data)
    /\ thread_out' = Null
    /\ fetch_pc' = "raised"
    /\ UNCHANGED <<api_data, composeVars, mediaVars, mdVars, aiVars>>

NextFetch == ReturnThread \/ ReturnNone \/ RequestFails \/ RaiseAttributeError

SpecFetch == InitFetch /\ [][NextFetch]_vars

(***************************************************************************)
(* The raw thread and the clean thread of a state, node by node.           *)
(***************************************************************************)
ThreadReturned == fetch_pc = "returned" /\ IsDict(thread_out)

RawRoot == Get(api_data, "thread", EmptyDict)

RawReplies(node) == ListOf(safe_get(node, <<"replies">>, Null))

\* the raw post of a node, {} when the node has none
RawPostOf(node) == Get(node, "post", EmptyDict)

\* the raw replies the normalizer keeps: objects whose post, if any, is an object
IsKept(node) == IsDict(node) /\ IsDict(RawPostOf(node))

KeptReplies(node) == SelectSeq(RawReplies(node), IsKept)

CleanReplies(clean) == ListOf(safe_get(clean, <<"replies">>, Null))

\* the uri of a raw node's post, "" when it has none
RawUri(node) == Get(RawPostOf(node), "uri", EmptyStr)

RECURSIVE OrderKept(_, _)
\* the clean replies of clean are the kept raw replies of node, one for one
\* and in their order, and so on below them
OrderKept(node, clean) ==
    LET kept == KeptReplies(node)
        replies == CleanReplies(clean)
    IN /\ Len(replies) = Len(kept)
       /\ \A i \in 1..Len(replies) :
            /\ SameValue(replies[i].v["uri"], RawUri(kept[i]))
            /\ OrderKept(kept[i], replies[i])

\* C17: at every level the replies of a normalized node are the normalizations
\* of the raw replies that normalize to non-absent, in the order of the raw
\* replies array.
C17_ReplyOrderPreserved == ThreadReturned => OrderKept(RawRoot, thread_out)

\* a root with two kept replies, the second of which has two kept replies
C17_Witness ==
    /\ ThreadReturned
    /\ Len(RawReplies(RawRoot)) = 2
    /\ Len(CleanReplies(thread_out)) = 2
    /\ CleanReplies(thread_out)[1].v["uri"] = Str(UriOf(<<1>>))
    /\ CleanReplies(thread_out)[2].v["uri"] = Str(UriOf(<<2>>))
    /\ Len(CleanReplies(CleanReplies(thread_out)[2])) = 2
    /\ CleanReplies(CleanReplies(thread_out)[2])[1].v["uri"] = Str(UriOf(<<2, 1>>))
    /\ CleanReplies(CleanReplies(thread_out)[2])[2].v["uri"] = Str(UriOf(<<2, 2>>))

RECURSIVE CleanPaths(_, _)
\* the nodes of a clean thread, named by their paths
CleanPaths(clean, path) ==
    {path} \cup UNION {CleanPaths(CleanReplies(clean)[i], Append(path, i)) :
                       i \in 1..Len(CleanReplies(clean))}

RECURSIVE CleanAt(_, _)
CleanAt(clean, path) ==
    IF path = <<>> THEN clean ELSE CleanAt(CleanReplies(clean)[Head(path)], Tail(path))

RECURSIVE RawAt(_, _)
\* the raw node a clean node was made from
RawAt(node, path) ==
    IF path = <<>> THEN node ELSE RawAt(KeptReplies(node)[Head(path)], Tail(path))

CleanNodes == CleanPaths(thread_out, <<>>)

CleanReplyNodes == CleanNodes \ {<<>>}

\* a raw node with no processable post payload: its post is missing, is no
\* object, or is an object with nothing in it
Unprocessable(node) ==
    \/ ~IsDict(node)
    \/ "post" \notin DOMAIN node.v
    \/ ~IsDict(node.v["post"])
    \/ DOMAIN node.v["post"].v = {}

RECURSIVE ProcessableUris(_)
\* the uris of a reply and of the nodes below it, as far as processable nodes lead
ProcessableUris(node) ==
    IF Unprocessable(node) THEN {}
    ELSE StrSet(RawUri(node))
         \cup UNION {ProcessableUris(RawReplies(node)[i]) : i \in 1..Len(RawReplies(node))}

\* a record of defaulted fields
IsPlaceholder(clean) ==
    /\ clean.v["uri"] = EmptyStr
    /\ clean.v["cid"] = EmptyStr
    /\ clean.v["text"] = EmptyStr
    /\ clean.v["author"].v["handle"] = EmptyStr

\* C18: a raw reply with no processable post payload is not among the
\* normalized replies of its parent, no record of defaulted fields stands in
\* its place, and no node below it is anywhere in the normalized tree.
C18_AsStated ==
    ThreadReturned =>
        \A p \in CleanReplyNodes :
            /\ ~IsPlaceholder(CleanAt(thread_out, p))
            /\ StrSet(CleanAt(thread_out, p).v["uri"])
                \subseteq UNION {ProcessableUris(RawReplies(RawRoot)[i]) :
                                 i \in 1..Len(RawReplies(RawRoot))}

S_unknown == <<"u", "n", "k", "n", "o", "w", "n">>

RawAuthor(node) == DictOrEmpty(Get(RawPostOf(node), "author", EmptyDict))

\* the handle as stated: the upstream handle, "unknown" when there is none
HandleAsStated(node) == Get(RawAuthor(node), "handle", Str(S_unknown))

\* C19: the normalized author has the upstream handle, or "unknown" when that
\* is absent, and the upstream displayName, or the (defaulted) handle when
\* that is absent.
C19_AsStated ==
    ThreadReturned =>
        \A p \in CleanNodes :
            LET author == CleanAt(thread_out, p).v["author"]
                node == RawAt(RawRoot, p)
            IN /\ SameValue(author.v["handle"], HandleAsStated(node))
               /\ SameValue(author.v["display_name"],
                            Get(RawAuthor(node), "displayName", HandleAsStated(node)))

IsCount(x) == x.t = "int" /\ x.v >= 0

IsFlag(x) == x.t = "bool"

\* C20: in every post the normalizer produces the reply, repost and like
\* counts are integers >= 0 and the two viewer flags are booleans.
C20_AsStated ==
    ThreadReturned =>
        \A p \in CleanNodes :
            LET clean == CleanAt(thread_out, p)
            IN /\ IsCount(clean.v["reply_count"])
               /\ IsCount(clean.v["repost_count"])
               /\ IsCount(clean.v["like_count"])
               /\ IsFlag(clean.v["liked_by_me"])
               /\ IsFlag(clean.v["reposted_by_me"])

(***************************************************************************)
(* The clean thread fed to the normalizer again.                           *)
(***************************************************************************)
\* the clean post of the root, normalized as the post of a raw node
NormalizedAgain == gpt_process_thread_node(Dict([post |-> thread_out]))

PostFields == {"uri", "cid", "text", "created_at", "liked_by_me", "reposted_by_me",
               "reply_count", "repost_count", "like_count"}

AuthorFields == {"did", "handle", "display_name", "avatar"}

\* the field values of two clean posts are the same
SameFields(a, b) ==
    /\ \A f \in PostFields : SameValue(a.v[f], b.v[f])
    /\ \A f \in AuthorFields : SameValue(a.v["author"].v[f], b.v["author"].v[f])
    /\ Len(a.v["media"].v) = Len(b.v["media"].v)
    /\ \A i \in 1..Len(a.v["media"].v) :
        SameValue(a.v["media"].v[i].v["uri"], b.v["media"].v[i].v["uri"])

\* C21: normalizing the clean post of a raw post again gives a post with the
\* same uri, cid, author, text, created_at, media, counts and viewer flags.
C21_AsStated == ThreadReturned => SameFields(NormalizedAgain, thread_out)

\* the root of the response is an empty object or no object
RootUnnormalizable == ~IsDict(RawRoot) \/ DOMAIN RawRoot.v = {}

\* C22: when the root of the thread is an empty object or is not an object,
\* get_post_thread returns None, not a record of defaulted fields.
C22_AsStated ==
    (fetch_pc = "returned" /\ IsDict(api_data) /\ RootUnnormalizable) => IsNone(thread_out)

(***************************************************************************)
(* Claims on thread_to_markdown, continued.                                *)
(***************************************************************************)
Finished == pc \in {"returned", "raised"}

\* the call of the state, with the depth limit d
Shallow(d) ==
    thread_to_markdown(thread_data, format_str, include_replies, d, filter_fn, include_indices)

\* fragment i is the same when nothing below the depth of its node is processed
SameWithoutDeeper(i) ==
    \E j \in DOMAIN Shallow(Len(PathOfFragment(i))).post_mds :
        /\ Shallow(Len(PathOfFragment(i))).post_mds[j].uri = Fragments[i].uri
        /\ Shallow(Len(PathOfFragment(i))).post_mds[j].md = Fragments[i].md

RootOnly == thread_to_markdown(thread_data, format_str, TRUE, 0, filter_fn, include_indices)

\* C24: with include_replies False the outcome is the one of include_replies
\* True and max_depth 0, and the output has no fragment but the root's.
C24_NoRepliesIsDepthZero ==
    (Finished /\ ~include_replies) =>
        /\ result.exc = RootOnly.exc
        /\ result.markdown = RootOnly.markdown
        /\ Len(Fragments) <= 1
        /\ \A i \in DOMAIN Fragments : i \in FragmentsOf(<<>>)

\* include_replies is False with no depth limit, the root is rendered and it
\* has a reply that would be rendered with include_replies True
C24_Witness ==
    /\ pc = "returned" /\ ~include_replies /\ max_depth < 0
    /\ Len(Fragments) = 1 /\ Rendered(<<>>)
    /\ result.markdown = RootOnly.markdown
    /\ Len(thread_to_markdown(thread_data, format_str, TRUE, max_depth, filter_fn,
                              include_indices).post_mds) > 1

DigitValue(c) == CHOOSE n \in 0..9 : Digit(n) = c

RECURSIVE ParseDotted(_, _, _, _)
\* the integers of a dotted string such as "1.2.1", read from position k on
ParseDotted(s, k, cur, acc) ==
    IF k > Len(s) THEN Append(acc, cur)
    ELSE IF s[k] = "." THEN ParseDotted(s, k + 1, 0, Append(acc, cur))
    ELSE ParseDotted(s, k + 1, cur * 10 + DigitValue(s[k]), acc)

\* the index fragment i begins with, "[<index>] ", as a sequence of integers
FragmentIndex(i) ==
    LET md == Fragments[i].md
        close == CHOOSE k \in 1..Len(md) : md[k] = "]" /\ \A n \in 1..(k - 1) : md[n] # "]"
    IN ParseDotted(SubSeq(md, 2, close - 1), 1, 0, <<>>)

\* a comes before b in lexicographic order: a proper prefix of b, or smaller
\* at the first place where they differ
LexLess(a, b) ==
    \/ Len(a) < Len(b) /\ SubSeq(b, 1, Len(a)) = a
    \/ \E k \in 1..Len(a) :
          /\ k <= Len(b)
          /\ SubSeq(a, 1, k - 1) = SubSeq(b, 1, k - 1)
          /\ a[k] < b[k]

\* the templates whose fragments begin with the index when indices are on
IndexFirst == format_str \in {IndexedFormat, <<Field("nonexistent")>>}

\* C28: with include_indices the index of a node at depth d is d+1 positive
\* integers, 1 first and then the 1-based positions along the path to the
\* node; no two fragments share an index and the fragments stand in the
\* lexicographic order of their indices.
C28_IndexIsPath ==
    (pc = "returned" /\ include_indices /\ IndexFirst) =>
        /\ \A i \in DOMAIN Fragments :
            LET index == FragmentIndex(i)
                path == PathOfFragment(i)
            IN /\ Len(index) = Len(path) + 1
               /\ index[1] = 1
               /\ \A k \in 1..Len(path) : index[k + 1] = path[k] /\ index[k + 1] > 0
        /\ \A i, j \in DOMAIN Fragments :
            i < j => FragmentIndex(i) # FragmentIndex(j)
                     /\ LexLess(FragmentIndex(i), FragmentIndex(j))

\* fallback fragments with indices: one at depth 2 with index 1.1.2 is followed
\* by the one of the root's second reply, 1.2
C28_Witness ==
    /\ pc = "returned" /\ include_indices /\ format_str = <<Field("nonexistent")>>
    /\ \E i \in DOMAIN Fragments :
          /\ i + 1 \in DOMAIN Fragments
          /\ FragmentIndex(i) = <<1, 1, 2>>
          /\ FragmentIndex(i + 1) = <<1, 2>>

\* the call of the state with a template that every context can fill when
\* indices are on, and that falls back with them off
WithIndexedFormat ==
    thread_to_markdown(thread_data, IndexedFormat, include_replies, max_depth, filter_fn,
                       include_indices)

\* "[<index>] " at the head of a fragment, or nothing when it has no index
IndexPrefix(md) ==
    IF md # <<>> /\ md[1] = "["
    THEN SubSeq(md, 1, CHOOSE k \in 1..Len(md) : md[k] = "]" /\ \A n \in 1..(k - 1) : md[n] # "]")
    ELSE <<>>

\* C29: when the substitution of every node fails for a missing placeholder
\* and the fallback is emitted, the nodes rendered, their order and their
\* indices are those of a run whose template has no missing placeholder: the
\* fallback prunes nothing.
C29_FallbackKeepsSubtree ==
    (pc = "returned" /\ format_str = <<Field("nonexistent")>>) =>
        /\ WithIndexedFormat.exc = "none"
        /\ Len(Fragments) = Len(WithIndexedFormat.post_mds)
        /\ \A i \in DOMAIN Fragments :
            /\ Fragments[i].fallback
            /\ Fragments[i].uri = WithIndexedFormat.post_mds[i].uri
            /\ IndexPrefix(Fragments[i].md) = IndexPrefix(WithIndexedFormat.post_mds[i].md)

\* every fragment is a fallback, down to a node at depth 2, and with indices
\* on the other run substitutes its template
C29_Witness ==
    /\ pc = "returned" /\ format_str = <<Field("nonexistent")>> /\ include_indices
    /\ Len(Fragments) >= 3
    /\ \E i \in DOMAIN Fragments : Len(PathOfFragment(i)) = 2 /\ Fragments[i].fallback
    /\ \A i \in DOMAIN WithIndexedFormat.post_mds : ~WithIndexedFormat.post_mds[i].fallback

\* ---------------------------------------------------------------------------
\* compose_thread_markdown, compose_md.py: the outline of a cleaned thread
\* ---------------------------------------------------------------------------

\* type(x).__name__ as Python prints it in the message of an exception
TypeName(x) ==
    CASE x.t = "str" -> <<"s", "t", "r">>
      [] x.t = "int" -> <<"i", "n", "t">>
      [] x.t = "bool" -> <<"b", "o", "o", "l">>
      [] x.t = "null" -> <<"N", "o", "n", "e", "T", "y", "p", "e">>
      [] x.t = "list" -> <<"l", "i", "s", "t">>
      [] x.t = "dict" -> <<"d", "i", "c", "t">>

\* no exception is pending
NoExc == [type |-> "none", msg |-> <<>>]

Raised(e) == e.type # "none"

\* x.get(...) on a value that is not a dict
AttributeError(x) ==
    [type |-> "AttributeError",
     msg |-> <<"'">> \o TypeName(x) \o <<"'", " ", "o", "b", "j", "e", "c", "t", " ", "h", "a", "s", " ", "n", "o", " ", "a", "t",
      "t", "r", "i", "b", "u", "t", "e", " ", "'", "g", "e", "t", "'">>]

\* a for loop over a value that cannot be iterated
TypeError(x) ==
    [type |-> "TypeError", msg |-> <<"'">> \o TypeName(x) \o <<"'", " ", "o", "b", "j", "e", "c", "t", " ", "i", "s", " ", "n", "o", "t", " ", "i", "t",
      "e", "r", "a", "b", "l", "e">>]

\* the keys of a dict as the items of an iteration
RECURSIVE KeysSeq(_)
KeysSeq(S) ==
    IF S = {} THEN <<>>
    ELSE LET k == CHOOSE k \in S : TRUE IN <<Str(<<k>>)>> \o KeysSeq(S \ {k})

\* what `for i, reply in enumerate(replies, 1)` iterates over
Iterate(replies) ==
    CASE replies.t = "list" -> [exc |-> NoExc, items |-> replies.v]
      [] replies.t = "str" ->
            [exc |-> NoExc, items |-> [i \in 1..Len(replies.v) |-> Str(<<replies.v[i]>>)]]
      [] replies.t = "dict" -> [exc |-> NoExc, items |-> KeysSeq(DOMAIN replies.v)]
      [] OTHER -> [exc |-> TypeError(replies), items |-> <<>>]

\* the heading of a block, compose_md.py:46 and compose_md.py:65
AuthorLine(author) ==
    LET author_name == OrElse(Get(author, "display_name", Str(<<>>)),
                              Get(author, "handle", Str(S_unknown)))
        author_handle == Get(author, "handle", Str(S_unknown))
    IN <<"#", "#", " ", "[">> \o ToStr(author_name) \o <<" ", "(", "@">> \o ToStr(author_handle)
       \o <<")", "]", "(", "h", "t", "t", "p", "s", ":", "/", "/", "b", "s", "k", "y", ".", "a", "p",
      "p", "/", "p", "r", "o", "f", "i", "l", "e", "/">> \o ToStr(author_handle) \o <<")">>

\* CurrentIndex with a fault: the numbering ignores the label of the parent
CurrentIndex_Restart(index_prefix, i) == IntToStr(i)

\* current_index, compose_md.py:57
CurrentIndex(index_prefix, i) ==
    IF index_prefix # <<>> THEN index_prefix \o IntToStr(i) ELSE IntToStr(i)

\* process_replies: the loop from its i-th item on; markdown is the list that
\* the blocks are appended to, exc the exception that ended the loop
RECURSIVE process_replies(_, _, _)
RECURSIVE ProcessFrom(_, _, _, _)
ProcessFrom(items, i, index_prefix, markdown) ==
    IF i > Len(items) THEN [exc |-> NoExc, markdown |-> markdown]
    ELSE
    LET reply == items[i]
    IN IF reply.t # "dict" THEN [exc |-> AttributeError(reply), markdown |-> markdown]
       ELSE
       LET author == Get(reply, "author", EmptyDict)
       IN IF author.t # "dict" THEN [exc |-> AttributeError(author), markdown |-> markdown]
          ELSE
          LET current_index == CurrentIndex(index_prefix, i)
              headed == Append(markdown, current_index \o <<".", " ">> \o AuthorLine(author))
              content == Get(reply, "text", Str(<<>>))
              texted == IF Truthy(content) THEN Append(headed, ToStr(content) \o <<"\n">>)
                        ELSE headed
              ruled == Append(texted, <<"-", "-", "-", "\n">>)
              nested == IF "replies" \in DOMAIN reply.v
                        THEN process_replies(Get(reply, "replies", List(<<>>)),
                                             current_index \o <<".">>, ruled)
                        ELSE [exc |-> NoExc, markdown |-> ruled]
          IN IF Raised(nested.exc) THEN nested
             ELSE ProcessFrom(items, i + 1, index_prefix, nested.markdown)

process_replies(replies, index_prefix, markdown) ==
    LET it == Iterate(replies)
    IN IF Raised(it.exc) THEN [exc |-> it.exc, markdown |-> markdown]
       ELSE ProcessFrom(it.items, 1, index_prefix, markdown)

\* the body of the try block, compose_md.py:34-81
ComposeBody(thread_data_) ==
    IF ~Truthy(thread_data_) THEN [exc |-> NoExc, markdown |-> <<>>]
    ELSE IF thread_data_.t # "dict"
    THEN [exc |-> AttributeError(thread_data_), markdown |-> <<>>]
    ELSE
    LET author == Get(thread_data_, "author", EmptyDict)
    IN IF author.t # "dict" THEN [exc |-> AttributeError(author), markdown |-> <<>>]
       ELSE
       LET headed == <<AuthorLine(author)>>
           content == Get(thread_data_, "text", Str(<<>>))
           texted == IF Truthy(content)
                     THEN Append(headed, <<"\n">> \o ToStr(content) \o <<"\n">>)
                     ELSE headed
       IN IF "replies" \in DOMAIN thread_data_.v
          THEN process_replies(Get(thread_data_, "replies", List(<<>>)), <<>>, texted)
          ELSE [exc |-> NoExc, markdown |-> texted]

\* the classes that `except Exception` catches, compose_md.py:83
Catches(e) == e.type \in {"AttributeError", "TypeError", "KeyError", "ValueError"}

\* the list built by the except block, compose_md.py:84-88
ErrorReport(e) ==
    <<<<"#", " ", "E", "r", "r", "o", "r", " ", "G", "e", "n", "e", "r", "a", "t", "i", "n", "g",
      " ", "M", "a", "r", "k", "d", "o", "w", "n">>,
      <<"\n", "A", "n", " ", "e", "r", "r", "o", "r", " ", "o", "c", "c", "u", "r", "r", "e",
      "d", " ", "w", "h", "i", "l", "e", " ", "g", "e", "n", "e", "r", "a", "t", "i", "n",
      "g", " ", "t", "h", "e", " ", "m", "a", "r", "k", "d", "o", "w", "n", ":", " ">> \o e.msg,
      <<"\n", "P", "l", "e", "a", "s", "e", " ", "c", "h", "e", "c", "k", " ", "t", "h", "e",
      " ", "l", "o", "g", "s", " ", "f", "o", "r", " ", "m", "o", "r", "e", " ", "d", "e",
      "t", "a", "i", "l", "s", ".">>>>

\* Handled with a fault: the report is appended to the blocks rendered so far
Handled_Appends(body) ==
    IF Raised(body.exc) /\ Catches(body.exc) THEN body.markdown \o ErrorReport(body.exc)
    ELSE body.markdown

\* the list after the try statement, compose_md.py:83-88
Handled(body) ==
    IF Raised(body.exc) /\ Catches(body.exc) THEN ErrorReport(body.exc) ELSE body.markdown

\* the fallback of an empty list, compose_md.py:91-93
NoPosts ==
    <<<<"#", " ", "N", "o", " ", "p", "o", "s", "t", "s", " ", "c", "o", "u", "l", "d", " ", "b",
      "e", " ", "p", "r", "o", "c", "e", "s", "s", "e", "d">>,
      <<"\n", "T", "h", "e", " ", "t", "h", "r", "e", "a", "d", " ", "d", "a", "t", "a", " ",
      "d", "i", "d", " ", "n", "o", "t", " ", "c", "o", "n", "t", "a", "i", "n", " ", "a",
      "n", "y", " ", "p", "r", "o", "c", "e", "s", "s", "a", "b", "l", "e", " ", "p", "o",
      "s", "t", "s", ".">>>>

\* compose_thread_markdown: exc is the exception that leaves the function,
\* error the one raised inside the try block, pieces the final list and
\* markdown the returned string
compose_thread_markdown(thread_data_) ==
    LET body == ComposeBody(thread_data_)
        escaped == Raised(body.exc) /\ ~Catches(body.exc)
        handled == Handled(body)
        pieces == IF handled = <<>> THEN NoPosts ELSE handled
    IN [exc |-> IF escaped THEN body.exc ELSE NoExc,
        error |-> body.exc,
        pieces |-> pieces,
        markdown |-> Join(<<"\n">>, pieces)]

\* ---- the cleaned threads that compose_thread_markdown is applied to ----

HandleOf(path) == <<"h">> \o [i \in 1..Len(path) |-> Digit(path[i])]
NameOf(path) == <<"N">> \o [i \in 1..Len(path) |-> Digit(path[i])]
TextOf(path) == <<"t">> \o [i \in 1..Len(path) |-> Digit(path[i])]

MdKinds ==
    {"no_text", "no_name", "no_author", "null_author", "str_node", "null_node",
     "empty_node", "empty_replies", "null_replies", "str_replies"}

\* a cleaned post as get_post_thread.py returns it, or one of its odd forms
RECURSIVE MdBuild(_, _, _)
MdBuild(shape, path, odd) ==
    LET kind == IF path \in DOMAIN odd THEN odd[path] ELSE "plain"
        author == Dict([handle |-> Str(HandleOf(path)),
                        display_name |-> Str(IF kind = "no_name" THEN <<>> ELSE NameOf(path))])
        post == [author |-> IF kind = "null_author" THEN Null ELSE author,
                 text |-> Str(IF kind = "no_text" THEN <<>> ELSE TextOf(path))]
        nested == List([i \in 1..Len(shape) |-> MdBuild(shape[i], Append(path, i), odd)])
    IN CASE kind = "str_node" -> Str(S_Hello)
         [] kind = "null_node" -> Null
         [] kind = "empty_node" -> EmptyDict
         [] kind = "no_author" -> Dict([text |-> post.text, replies |-> nested])
         [] kind = "empty_replies" -> Dict(Put(post, "replies", List(<<>>)))
         [] kind = "null_replies" -> Dict(Put(post, "replies", Null))
         [] kind = "str_replies" -> Dict(Put(post, "replies", Str(S_World)))
         [] OTHER -> IF shape = <<>> THEN Dict(post) ELSE Dict(Put(post, "replies", nested))

IsCleanThread(v) ==
    \E shape \in Shapes(MaxTreeDepth) :
        \E S \in {T \in SUBSET ShapePaths(shape, <<>>) : Cardinality(T) <= MaxOdd} :
            \E odd \in [S -> MdKinds] : v = MdBuild(shape, <<>>, odd)

InitMd ==
    /\ IsCleanThread(md_data)
    /\ md_pc = "called"
    /\ md_out = <<>>
    /\ ComposeIdle /\ MediaIdle /\ FetchIdle /\ AiIdle

\* the call returns the outline of a thread that raised nothing
ReturnOutline ==
    /\ md_pc = "called"
    /\ LET r == compose_thread_markdown(md_data)
       IN /\ ~Raised(r.exc)
          /\ ~Raised(r.error)
          /\ Truthy(md_data)
          /\ md_out' = r
    /\ md_pc' = "returned"
    /\ UNCHANGED <<md_data, composeVars, mediaVars, fetchVars, aiVars>>

\* the call returns the fallback text of falsy thread data
ReturnNoPosts ==
    /\ md_pc = "called"
    /\ LET r == compose_thread_markdown(md_data)
       IN /\ ~Raised(r.exc)
          /\ ~Raised(r.error)
          /\ ~Truthy(md_data)
          /\ md_out' = r
    /\ md_pc' = "returned"
    /\ UNCHANGED <<md_data, composeVars, mediaVars, fetchVars, aiVars>>

\* an exception was raised inside the try block and handled there
ReturnErrorReport ==
    /\ md_pc = "called"
    /\ LET r == compose_thread_markdown(md_data)
       IN /\ ~Raised(r.exc)
          /\ Raised(r.error)
          /\ md_out' = r
    /\ md_pc' = "returned"
    /\ UNCHANGED <<md_data, composeVars, mediaVars, fetchVars, aiVars>>

NextMd == ReturnOutline \/ ReturnNoPosts \/ ReturnErrorReport

SpecMd == InitMd /\ [][NextMd]_vars

\* ---- claims about compose_thread_markdown ----

MdReturned == md_pc = "returned"

\* the call rendered the thread: the data is not empty and nothing was raised
Outlined == MdReturned /\ Truthy(md_data) /\ ~Raised(md_out.error)

IsSuffix(p, s) == Len(p) <= Len(s) /\ SubSeq(s, Len(s) - Len(p) + 1, Len(s)) = p

\* the pieces of the result that are headings of blocks, in their order
IsHeading(piece) == Contains(<<"#", "#", " ", "[">>, piece)
Headings == SelectSeq(md_out.pieces, IsHeading)

\* the replies array of a node of the input
MdReplies(node) == IF "replies" \in DOMAIN node.v THEN node.v["replies"].v ELSE <<>>

RECURSIVE FlattenPaths(_)
FlattenPaths(lists) ==
    IF lists = <<>> THEN <<>> ELSE lists[1] \o FlattenPaths(Tail(lists))

\* the paths of the nodes of the input in depth-first preorder, siblings in
\* array order
RECURSIVE Preorder(_, _)
Preorder(node, path) ==
    <<path>> \o FlattenPaths([i \in 1..Len(MdReplies(node)) |->
                                  Preorder(MdReplies(node)[i], Append(path, i))])

RECURSIVE MdAt(_, _)
MdAt(node, path) ==
    IF path = <<>> THEN node ELSE MdAt(MdReplies(node)[path[1]], Tail(path))

\* the outline label of the node at a path: none for the root, "k." for the
\* k-th reply of the root, "P.k." for the k-th reply of the reply labelled "P."
RECURSIVE OutlineLabel(_)
OutlineLabel(path) ==
    IF path = <<>> THEN <<>>
    ELSE OutlineLabel(SubSeq(path, 1, Len(path) - 1)) \o IntToStr(path[Len(path)]) \o <<".">>

\* the profile link that ends the heading of the post at a path
ProfileOf(path) ==
    LET author == Get(MdAt(md_data, path), "author", EmptyDict)
    IN <<"/", "p", "r", "o", "f", "i", "l", "e", "/">> \o ToStr(Get(author, "handle", Str(S_unknown))) \o <<")">>

\* the heading is the one of the post at the path, under the label of the path
HeadingOf(piece, path) ==
    /\ IsSuffix(ProfileOf(path), piece)
    /\ IF path = <<>> THEN IsPrefix(<<"#", "#", " ", "[">>, piece)
       ELSE IsPrefix(OutlineLabel(path) \o <<" ", "#", "#", " ", "[">>, piece)

\* C25: compose_thread_markdown emits the root post without a number and
\* numbers the replies in outline form: the k-th reply of the root is labelled
\* "k.", the k-th reply of a reply labelled "P." is labelled "P.k."; the blocks
\* come in depth-first preorder with siblings in array order, so a reply's own
\* block precedes the blocks of its nested replies.
C25_OutlineNumbering ==
    Outlined =>
        LET pre == Preorder(md_data, <<>>)
        IN /\ Len(Headings) = Len(pre)
           /\ \A k \in 1..Len(pre) : HeadingOf(Headings[k], pre[k])

\* a rendered thread where a reply with two nested replies is followed by a
\* second reply of the root
C25_Witness ==
    /\ Outlined
    /\ Preorder(md_data, <<>>) = <<<<>>, <<1>>, <<1, 1>>, <<1, 2>>, <<2>>>>
    /\ IsPrefix(<<"1", ".", "2", ".", " ", "#", "#", " ", "[">>, Headings[4])

\* a replies value whose loop raises: not iterable, or iterated into items
\* that are not objects
RepliesFault(replies) ==
    \/ replies.t \notin {"list", "str", "dict"}
    \/ replies.t \in {"str", "dict"} /\ Truthy(replies)

\* the traversal of the node meets a reply or an author that is not an object,
\* or a replies value it cannot walk
RECURSIVE Faulty(_)
Faulty(node) ==
    \/ node.t # "dict"
    \/ /\ node.t = "dict"
       /\ \/ Get(node, "author", EmptyDict).t # "dict"
          \/ /\ "replies" \in DOMAIN node.v
             /\ \/ RepliesFault(node.v["replies"])
                \/ /\ node.v["replies"].t = "list"
                   /\ \E i \in 1..Len(node.v["replies"].v) : Faulty(node.v["replies"].v[i])

S_ErrorReport(msg) ==
    <<"#", " ", "E", "r", "r", "o", "r", " ", "G", "e", "n", "e", "r", "a", "t", "i", "n", "g",
      " ", "M", "a", "r", "k", "d", "o", "w", "n", "\n", "\n", "A", "n", " ", "e", "r",
      "r", "o", "r", " ", "o", "c", "c", "u", "r", "r", "e", "d", " ", "w", "h", "i", "l",
      "e", " ", "g", "e", "n", "e", "r", "a", "t", "i", "n", "g", " ", "t", "h", "e", " ",
      "m", "a", "r", "k", "d", "o", "w", "n", ":", " ">>
    \o msg \o <<"\n", "\n", "P", "l", "e", "a", "s", "e", " ", "c", "h", "e", "c", "k", " ", "t", "h",
      "e", " ", "l", "o", "g", "s", " ", "f", "o", "r", " ", "m", "o", "r", "e", " ", "d",
      "e", "t", "a", "i", "l", "s", ".">>

S_NoPosts ==
    <<"#", " ", "N", "o", " ", "p", "o", "s", "t", "s", " ", "c", "o", "u", "l", "d", " ", "b",
      "e", " ", "p", "r", "o", "c", "e", "s", "s", "e", "d", "\n", "\n", "T", "h", "e",
      " ", "t", "h", "r", "e", "a", "d", " ", "d", "a", "t", "a", " ", "d", "i", "d", " ",
      "n", "o", "t", " ", "c", "o", "n", "t", "a", "i", "n", " ", "a", "n", "y", " ", "p",
      "r", "o", "c", "e", "s", "s", "a", "b", "l", "e", " ", "p", "o", "s", "t", "s", ".">>

\* C26: compose_thread_markdown never raises and always returns a non-empty
\* string; for empty thread data the string is the "No posts could be
\* processed" text; if an error occurs anywhere during the traversal (a reply
\* or an author that is not an object, replies that cannot be walked) the
\* result is the error report alone, with none of the blocks rendered before
\* the error.
C26_NeverRaisesReportAlone ==
    /\ md_pc = "called" => ~Raised(compose_thread_markdown(md_data).exc)
    /\ MdReturned =>
          /\ md_out.markdown # <<>>
          /\ ~Truthy(md_data) => md_out.markdown = S_NoPosts
          /\ Raised(md_out.error) <=> (Truthy(md_data) /\ Faulty(md_data))
          /\ Raised(md_out.error) =>
                /\ md_out.markdown = S_ErrorReport(md_out.error.msg)
                /\ Headings = <<>>
                /\ ~Contains(<<"/", "p", "r", "o", "f", "i", "l", "e", "/">>, md_out.markdown)
                /\ ~Contains(<<"-", "-", "-">>, md_out.markdown)

\* the author of the second reply is not an object; the first reply and its
\* nested reply were rendered before it
C26_Witness ==
    /\ MdReturned
    /\ Raised(md_out.error)
    /\ Len(ComposeBody(md_data).markdown) >= 8
    /\ Len(MdReplies(md_data)) = 2
    /\ MdReplies(md_data)[2].t = "dict"
    /\ Get(MdReplies(md_data)[2], "author", EmptyDict).t = "null"
    /\ IsPrefix(<<"#", " ", "E", "r", "r", "o", "r", " ", "G", "e", "n", "e", "r", "a", "t", "i", "n", "g",
      " ", "M", "a", "r", "k", "d", "o", "w", "n">>, md_out.markdown)

\* ---------------------------------------------------------------------------
\* ai_api_call, ai_api_call.py: one completion request under a retry policy
\* ---------------------------------------------------------------------------

\* stop_after_attempt(6), ai_api_call.py:51
StopAfterAttempt == 6

\* Stops with a fault: the policy stops one attempt late
Stops_OneLate(attempt_number) == attempt_number > StopAfterAttempt

\* the stop condition of the retry policy, evaluated after a failed attempt
Stops(attempt_number) == attempt_number >= StopAfterAttempt

\* _setup_azure_openai: env is the set of environment variables that are set
\* to a non-empty value
_setup_azure_openai(env) ==
    "AZURE_OPENAI_KEY" \in env /\ "AZURE_OPENAI_ENDPOINT" \in env

S_system == <<"s", "y", "s", "t", "e", "m">>
S_JsonFormat == <<"Y", "o", "u", " ", "p", "r", "o", "v", "i", "d", "e", " ", "r", "e", "s", "p", "o", "n",
      "s", "e", "s", " ", "i", "n", " ", "J", "S", "O", "N", " ", "f", "o", "r", "m", "a",
      "t", ".">>
S_UseStructure == <<" ", "P", "l", "e", "a", "s", "e", " ", "p", "r", "o", "v", "i", "d", "e", " ", "a", " ",
      "r", "e", "s", "p", "o", "n", "s", "e", " ", "u", "s", "i", "n", "g", " ", "t", "h",
      "i", "s", " ", "J", "S", "O", "N", " ", "s", "t", "r", "u", "c", "t", "u", "r", "e",
      ":", " ">>

\* json.dumps of the structures of the model: integers, strings and objects
\* with keys of one character
RECURSIVE JsonDumps(_)
RECURSIVE DumpItems(_, _)
DumpItems(d, keys) ==
    IF keys = {} THEN <<>>
    ELSE LET k == CHOOSE k \in keys : TRUE
             item == <<"\"">> \o <<k>> \o <<"\"", ":", " ">> \o JsonDumps(d[k])
         IN IF keys = {k} THEN item ELSE item \o <<",", " ">> \o DumpItems(d, keys \ {k})

JsonDumps(x) ==
    CASE x.t = "int" -> IntToStr(x.v)
      [] x.t = "str" -> <<"\"">> \o x.v \o <<"\"">>
      [] x.t = "null" -> <<"n", "u", "l", "l">>
      [] x.t = "dict" -> <<"{">> \o DumpItems(x.v, DOMAIN x.v) \o <<"}">>
      [] OTHER -> <<"[", "]">>

\* the documents that json.loads can return in the model
JsonDocuments == {Dict("a" :> IntV(1)), EmptyDict, IntV(1)}

\* json.loads: the document that the text denotes, or a JSONDecodeError
JsonLoads(text) ==
    IF \E doc \in JsonDocuments : JsonDumps(doc) = text
    THEN [exc |-> NoExc, value |-> CHOOSE doc \in JsonDocuments : JsonDumps(doc) = text]
    ELSE [exc |-> [type |-> "JSONDecodeError", msg |-> <<"E", "x", "p", "e", "c", "t", "i", "n", "g", " ", "v", "a", "l", "u", "e">>], value |-> Null]

\* msg.get("role") == "system"
IsSystem(msg) ==
    /\ "role" \in DOMAIN msg.v
    /\ msg.v["role"].t = "str"
    /\ msg.v["role"].v = S_system

NotADict(msg) == msg.t # "dict"
SystemDict(msg) == msg.t = "dict" /\ IsSystem(msg)

\* the position of the first message without get, 0 if none
FirstNotADict(msgs) ==
    IF \E i \in 1..Len(msgs) : NotADict(msgs[i])
    THEN CHOOSE i \in 1..Len(msgs) :
             NotADict(msgs[i]) /\ \A j \in 1..(i - 1) : ~NotADict(msgs[j])
    ELSE 0

\* the position of the first system message, 0 if none
FirstSystem(msgs) ==
    IF \E i \in 1..Len(msgs) : SystemDict(msgs[i])
    THEN CHOOSE i \in 1..Len(msgs) :
             SystemDict(msgs[i]) /\ \A j \in 1..(i - 1) : ~SystemDict(msgs[j])
    ELSE 0

\* msg["content"] += text on the message at a position
AddContent(msgs, at, text) ==
    LET msg == msgs[at]
    IN IF "content" \notin DOMAIN msg.v
       THEN [exc |-> [type |-> "KeyError", msg |-> <<"'", "c", "o", "n", "t", "e", "n", "t", "'">>], messages |-> msgs]
       ELSE IF msg.v["content"].t # "str"
       THEN [exc |-> [type |-> "TypeError",
                      msg |-> <<"u", "n", "s", "u", "p", "p", "o", "r", "t", "e", "d", " ", "o", "p", "e", "r", "a", "n",
      "d", " ", "t", "y", "p", "e", "(", "s", ")", " ", "f", "o", "r", " ", "+", "=", ":",
      " ", "'">>
                              \o TypeName(msg.v["content"]) \o <<"'", " ", "a", "n", "d", " ", "'", "s", "t", "r", "'">>],
             messages |-> msgs]
       ELSE [exc |-> NoExc,
             messages |-> [msgs EXCEPT ![at] =
                              Dict(Put(msg.v, "content", Str(msg.v["content"].v \o text)))]]

\* the loops over the messages stop at the first system message and raise at
\* a message without get met before it
LoopRaises(msgs) ==
    LET bad == FirstNotADict(msgs)
        sys == FirstSystem(msgs)
    IN bad # 0 /\ (sys = 0 \/ bad < sys)

\* the part of _make_api_call before the request, ai_api_call.py:72-100: the
\* list object of the caller as the attempt leaves it and the exception raised
PrepareMessages(msgs, structure) ==
    IF ~Truthy(structure) THEN [exc |-> NoExc, messages |-> msgs]
    ELSE IF LoopRaises(msgs)
    THEN [exc |-> AttributeError(msgs[FirstNotADict(msgs)]), messages |-> msgs]
    ELSE
    LET sys == FirstSystem(msgs)
        told == IF sys = 0
                THEN [exc |-> NoExc,
                      messages |-> <<Dict([role |-> Str(S_system),
                                           content |-> Str(S_JsonFormat)])>> \o msgs]
                ELSE AddContent(msgs, sys, <<" ">> \o S_JsonFormat)
    IN IF Raised(told.exc) THEN told
       ELSE AddContent(told.messages, FirstSystem(told.messages),
                       S_UseStructure \o JsonDumps(structure))

\* obj[key] for a key of a dict
Subscript(obj, key) ==
    IF obj.t = "dict"
    THEN IF key \in DOMAIN obj.v THEN [exc |-> NoExc, value |-> obj.v[key]]
         ELSE [exc |-> [type |-> "KeyError", msg |-> <<"'", key, "'">>], value |-> Null]
    ELSE [exc |-> [type |-> "TypeError",
                   msg |-> <<"'">> \o TypeName(obj) \o <<"'", " ", "o", "b", "j", "e", "c", "t", " ", "i", "s", " ", "n", "o", "t", " ", "s", "u",
      "b", "s", "c", "r", "i", "p", "t", "a", "b", "l", "e">>],
          value |-> Null]

\* obj[0]
First(obj) ==
    IF obj.t \in {"list", "str"}
    THEN IF obj.v # <<>>
         THEN [exc |-> NoExc, value |-> IF obj.t = "list" THEN obj.v[1] ELSE Str(<<obj.v[1]>>)]
         ELSE [exc |-> [type |-> "IndexError", msg |-> <<"l", "i", "s", "t", " ", "i", "n", "d", "e", "x", " ", "o", "u", "t", " ", "o", "f", " ",
      "r", "a", "n", "g", "e">>],
               value |-> Null]
    ELSE [exc |-> [type |-> "TypeError",
                   msg |-> <<"'">> \o TypeName(obj) \o <<"'", " ", "o", "b", "j", "e", "c", "t", " ", "i", "s", " ", "n", "o", "t", " ", "s", "u",
      "b", "s", "c", "r", "i", "p", "t", "a", "b", "l", "e">>],
          value |-> Null]

\* response['choices'][0]['message']['content'], ai_api_call.py:155
ContentOf(response) ==
    LET choices == Subscript(response, "choices")
    IN IF Raised(choices.exc) THEN choices
       ELSE LET choice == First(choices.value)
            IN IF Raised(choice.exc) THEN choice
               ELSE LET message == Subscript(choice.value, "message")
                    IN IF Raised(message.exc) THEN message
                       ELSE Subscript(message.value, "content")

\* the classes that `except Exception` catches, ai_api_call.py:170
AiCatches(e) ==
    e.type \in {"RetryError", "KeyError", "IndexError", "TypeError", "AttributeError",
                "JSONDecodeError"}

\* the except block, ai_api_call.py:170-172: the outcome of a call whose try
\* block raised e
Excepted(e) ==
    IF AiCatches(e) THEN [pc |-> "returned", value |-> Str(<<"E", "r", "r", "o", "r", ":", " ">> \o e.msg)]
    ELSE [pc |-> "raised", value |-> Str(e.msg)]

\* what the retry policy raises when it stops; the text names the future of
\* the last attempt
RetryError == [type |-> "RetryError", msg |-> <<"R", "e", "t", "r", "y", "E", "r", "r", "o", "r", "[", "<", "F", "u", "t", "u", "r", "e",
      " ", "s", "t", "a", "t", "e", "=", "f", "i", "n", "i", "s", "h", "e", "d", " ", "r",
      "a", "i", "s", "e", "d", ">", "]">>]

\* ai_api_call.py:155-168: the outcome of a call whose request was answered
Answered(response, structure) ==
    LET content == ContentOf(response)
    IN IF Raised(content.exc) THEN Excepted(content.exc)
       ELSE IF Truthy(structure) /\ Truthy(content.value)
       THEN IF content.value.t # "str"
            THEN Excepted([type |-> "TypeError",
                           msg |-> <<"t", "h", "e", " ", "J", "S", "O", "N", " ", "o", "b", "j", "e", "c", "t", " ", "m", "u",
      "s", "t", " ", "b", "e", " ", "s", "t", "r", ",", " ", "b", "y", "t", "e", "s", " ",
      "o", "r", " ", "b", "y", "t", "e", "a", "r", "r", "a", "y", ",", " ", "n", "o", "t",
      " ">>
                                   \o TypeName(content.value)])
            ELSE LET parsed == JsonLoads(content.value.v)
                 IN IF Raised(parsed.exc) THEN [pc |-> "returned", value |-> content.value]
                    ELSE [pc |-> "returned", value |-> parsed.value]
       ELSE [pc |-> "returned", value |-> content.value]

\* ---- the calls of ai_api_call ----

AiVariables == {"AZURE_OPENAI_KEY", "AZURE_OPENAI_ENDPOINT", "AZURE_OPENAI_DEPLOYMENT"}

UserMessage == Dict([role |-> Str(<<"u", "s", "e", "r">>), content |-> Str(<<"h", "i">>)])
SystemMessage == Dict([role |-> Str(S_system), content |-> Str(<<"B", "e", " ", "b", "r", "i", "e", "f", ".">>)])

\* the messages argument: with and without a system message, the system
\* message first or last, and the odd forms of a message
MessageLists ==
    {<<UserMessage>>, <<SystemMessage, UserMessage>>, <<UserMessage, SystemMessage>>, <<>>,
     <<Str(<<"h", "i">>)>>, <<Dict([role |-> Str(S_system)]), UserMessage>>}

\* the structured_output argument
Structures == {Null, EmptyDict, Dict("a" :> IntV(1))}

ResponseWith(content) ==
    Dict([choices |-> List(<<Dict([message |-> Dict([content |-> content])])>>)])

\* what openai.ChatCompletion.create returns when it does not raise
Responses ==
    {ResponseWith(Str(<<"h", "e", "l", "l", "o">>)), ResponseWith(Str(<<"{", "\"", "a", "\"", ":", " ", "1", "}">>)), ResponseWith(Str(<<>>)),
     ResponseWith(Null), Dict([choices |-> List(<<>>)]), EmptyDict}

InitAi ==
    /\ ai_env \in SUBSET AiVariables
    /\ messages \in MessageLists
    /\ structured_output \in Structures
    /\ attempts = 0
    /\ sent = <<>>
    /\ ai_pc = "called"
    /\ ai_out = <<>>
    /\ ComposeIdle /\ MediaIdle /\ FetchIdle /\ MdIdle

otherVars == <<composeVars, mediaVars, fetchVars, mdVars>>

\* ai_api_call.py:132-134
SetupFails ==
    /\ ai_pc = "called"
    /\ ~_setup_azure_openai(ai_env)
    /\ ai_out' = Str(<<"E", "r", "r", "o", "r", ":", " ", "A", "z", "u", "r", "e", " ", "O", "p", "e", "n", "A",
      "I", " ", "c", "l", "i", "e", "n", "t", " ", "s", "e", "t", "u", "p", " ", "f", "a",
      "i", "l", "e", "d", ".", " ", "C", "h", "e", "c", "k", " ", "c", "r", "e", "d", "e",
      "n", "t", "i", "a", "l", "s", ".">>)
    /\ ai_pc' = "returned"
    /\ UNCHANGED <<ai_env, messages, structured_output, attempts, sent, otherVars>>

\* ai_api_call.py:138-141
DeploymentMissing ==
    /\ ai_pc = "called"
    /\ _setup_azure_openai(ai_env)
    /\ "AZURE_OPENAI_DEPLOYMENT" \notin ai_env
    /\ ai_out' = Str(<<"E", "r", "r", "o", "r", ":", " ", "A", "z", "u", "r", "e", " ", "O", "p", "e", "n", "A",
      "I", " ", "d", "e", "p", "l", "o", "y", "m", "e", "n", "t", " ", "I", "D", " ", "n",
      "o", "t", " ", "s", "p", "e", "c", "i", "f", "i", "e", "d">>)
    /\ ai_pc' = "returned"
    /\ UNCHANGED <<ai_env, messages, structured_output, attempts, sent, otherVars>>

\* _make_api_call is about to run: for the first time, or again after a wait
Ready ==
    \/ ai_pc = "called" /\ _setup_azure_openai(ai_env) /\ "AZURE_OPENAI_DEPLOYMENT" \in ai_env
    \/ ai_pc = "waiting"

\* one run of _make_api_call: what it leaves in the list of the caller and in
\* the record of the attempts, whether the request was made and how it ended
Attempted(requested, outcome) ==
    LET prepared == PrepareMessages(messages, structured_output)
    IN /\ requested = ~Raised(prepared.exc)
       /\ attempts' = attempts + 1
       /\ messages' = prepared.messages
       /\ sent' = Append(sent, [messages |-> prepared.messages, requested |-> requested,
                                outcome |-> outcome])

\* the request is answered, ai_api_call.py:103-104 and 155-168
AttemptAnswered ==
    /\ Ready
    /\ Attempted(TRUE, "answered")
    /\ \E response \in Responses :
          LET done == Answered(response, structured_output)
          IN ai_pc' = done.pc /\ ai_out' = done.value
    /\ UNCHANGED <<ai_env, structured_output, otherVars>>

\* the attempt raises, in the request or before it, and the policy waits for
\* the next attempt
AttemptFailsRetry ==
    /\ Ready
    /\ \E requested \in BOOLEAN : Attempted(requested, "failed")
    /\ ~Stops(attempts + 1)
    /\ ai_pc' = "waiting"
    /\ UNCHANGED <<ai_env, structured_output, ai_out, otherVars>>

\* the attempt raises and the policy stops: the RetryError reaches the except
\* block of ai_api_call
AttemptFailsStop ==
    /\ Ready
    /\ \E requested \in BOOLEAN : Attempted(requested, "failed")
    /\ Stops(attempts + 1)
    /\ LET done == Excepted(RetryError) IN ai_pc' = done.pc /\ ai_out' = done.value
    /\ UNCHANGED <<ai_env, structured_output, otherVars>>

NextAi ==
    SetupFails \/ DeploymentMissing \/ AttemptAnswered \/ AttemptFailsRetry \/ AttemptFailsStop

SpecAi == InitAi /\ [][NextAi]_vars

\* ---- claims about ai_api_call ----

AiReturned == ai_pc = "returned"

CredentialsMissing == "AZURE_OPENAI_KEY" \notin ai_env \/ "AZURE_OPENAI_ENDPOINT" \notin ai_env
DeploymentIdMissing == "AZURE_OPENAI_DEPLOYMENT" \notin ai_env

EveryAttemptFailed == sent # <<>> /\ \A i \in 1..Len(sent) : sent[i].outcome = "failed"

ErrorString(value) == value.t = "str" /\ IsPrefix(<<"E", "r", "r", "o", "r">>, value.v)

\* C27: ai_api_call ends after at most 6 attempts of the completion request;
\* when every attempt failed, or when the credentials or the deployment id
\* are missing (then no attempt is made), it returns a string that begins
\* with "Error", and it never raises to the caller.
C27_SixAttemptsThenError ==
    /\ Len(sent) <= StopAfterAttempt
    /\ attempts = Len(sent)
    /\ ai_pc # "raised"
    /\ Len(sent) = StopAfterAttempt => AiReturned
    /\ ai_pc = "waiting" => EveryAttemptFailed
    /\ AiReturned =>
          /\ (CredentialsMissing \/ DeploymentIdMissing) => sent = <<>> /\ ErrorString(ai_out)
          /\ EveryAttemptFailed => Len(sent) = StopAfterAttempt /\ ErrorString(ai_out)

\* six requests were made, every one failed, and the call returned the error
C27_Witness ==
    /\ AiReturned
    /\ Len(sent) = 6
    /\ \A i \in 1..6 : sent[i].requested /\ sent[i].outcome = "failed"
    /\ IsPrefix(<<"E", "r", "r", "o", "r", ":", " ", "R", "e", "t", "r", "y", "E", "r", "r", "o", "r">>, ai_out.v)

\* the attempts of the call in which the request was made
Requests == SelectSeq(sent, LAMBDA a : a.requested)

\* C30: with structured_output set, every retry attempt of one ai_api_call
\* sends the same messages as the first attempt: the JSON-format instruction
\* and the structure definition are added to the system message once per
\* call, so the system message does not grow with the failed attempts.
C30_AsStated ==
    Truthy(structured_output) =>
        \A i \in 1..Len(Requests) : Requests[i].messages = Requests[1].messages

=============================================================================
